---- MODULE Spec2Model ----
(***************************************************************************)
(* Model of the computation engine of FunctionVisualizer-V3                *)
(* (backend/app/core): the ComputationResult envelope, the memoized entry  *)
(* points (functools.lru_cache wrappers), and the evaluators behind them.  *)
(***************************************************************************)
EXTENDS Integers, Sequences, FiniteSets, TLC

VARIABLES
    cache,   \* cache[f]: the entries of the lru_cache of memoized function f, least recently used first
    fresh,   \* number of distinct filler points requested so far (the workload's position)
    call,    \* the last call made to the engine: [fn, args]
    ret,     \* what that call gave back to its caller: a ComputationResult, or a propagated exception
    first,   \* first[a]: what the first call with the tracked arguments a returned
    runs,    \* runs[<<f, a>>]: how many times the body of memoized function f has run on the tracked arguments a
    thr,     \* thr[t]: what request thread t is doing (concurrent workload); the running loop of critical_points; the result a caller holds and has changed
    recent   \* recent[f]: the keys memoized function f was last used with, least recently used first

vars == <<cache, fresh, call, ret, first, runs, thr, recent>>

(***************************************************************************)
(* Python values.  A value carries its type: 1 and 1.0 are equal and hash  *)
(* alike, yet print differently.                                           *)
(***************************************************************************)
PyStr(s)   == [t |-> "str",   s |-> s,  v |-> 0]
PyInt(n)   == [t |-> "int",   s |-> "", v |-> n]
PyFloat(n) == [t |-> "float", s |-> "", v |-> n]

NumTypes == {"int", "float"}

\* a == b of Python: numbers compare by value whatever their type
PyEq(a, b) ==
    IF a.t \in NumTypes /\ b.t \in NumTypes THEN a.v = b.v ELSE a = b

\* str(x) / f"{x}" of Python for the values above
Repr(x) ==
    CASE x.t = "str"   -> x.s
      [] x.t = "int"   -> ToString(x.v)
      [] x.t = "float" -> ToString(x.v) \o ".0"

\* utils.format_latex_number: integral values print as integers
format_latex_number(x) == ToString(x.v)

(***************************************************************************)
(* The envelope.                                                           *)
(***************************************************************************)
ComputationResult(status, operation, payload, steps, plot_elements) ==
    [kind          |-> "result",
     status        |-> status,
     operation     |-> operation,
     payload       |-> payload,
     steps         |-> steps,
     plot_elements |-> plot_elements]

\* variant: the message is not prefixed in the steps and the operation is
\* added to the payload
create_error_result_loose(operation, message) ==
    ComputationResult("error", operation, [error |-> message, operation |-> operation],
                      <<message>>, <<>>)

create_error_result(operation, message) ==
    ComputationResult("error", operation, [error |-> message],
                      <<"Error: " \o message>>, <<>>)

\* an exception that leaves a function instead of a value
Raised(exc, message) == [kind |-> "raise", exc |-> exc, message |-> message]

NoCall   == [fn |-> "none", args |-> <<>>]
NoResult == [kind |-> "none"]

PlotElement(type, label) == [type |-> type, label |-> label]

\* a plot element whose data has a list of (x, y) points
PlotCurve(type, label, points) == [type |-> type, label |-> label, points |-> points]

\* a float: finite (with its text), an infinity or nan
Fin(text) == [f |-> "fin", text |-> text]
PosInf    == [f |-> "inf", text |-> "inf"]
NegInf    == [f |-> "-inf", text |-> "-inf"]
NaN       == [f |-> "nan", text |-> "nan"]
isfinite(y) == y.f = "fin"
isnan(y)    == y.f = "nan"

\* the samples of np.linspace(start, stop, num) that fall on whole numbers,
\* both ends included
linspace(start, stop) == [i \in 1..(stop - start + 1) |-> Fin(ToString(start + i - 1))]
Grid(start, stop)     == [i \in 1..(stop - start + 1) |-> start + i - 1]

\* list(zip(xs.tolist(), ys.tolist()))
Zip(xs, ys) == [i \in 1..Len(xs) |-> <<xs[i], ys[i]>>]

\* list(zip(xs[mask].tolist(), ys[mask].tolist())) for mask = np.isfinite(ys)
RECURSIVE ZipFinite(_, _)
ZipFinite(xs, ys) ==
    IF xs = <<>> THEN <<>>
    ELSE (IF isfinite(Head(ys)) THEN << <<Head(xs), Head(ys)>> >> ELSE <<>>)
         \o ZipFinite(Tail(xs), Tail(ys))

(***************************************************************************)
(* functools.lru_cache(maxsize): the key is the argument tuple, compared   *)
(* with Python's == (typed=False).                                         *)
(***************************************************************************)
MATH_CACHE_SIZE == 128

KeyEq(a, b) ==
    /\ Len(a) = Len(b)
    /\ \A i \in 1..Len(a) : PyEq(a[i], b[i])

\* position of the entry for args in the entries c, 0 when there is none
Find(c, args) ==
    LET at == {i \in 1..Len(c) : KeyEq(c[i].key, args)}
    IN  IF at = {} THEN 0 ELSE CHOOSE i \in at : TRUE

Without(c, i) == [j \in 1..(Len(c) - 1) |-> IF j < i THEN c[j] ELSE c[j + 1]]

\* variant: a hit leaves the entry where it is
TouchNot(c, i) == c

\* a hit makes the entry the most recently used one
Touch(c, i) == Append(Without(c, i), c[i])

\* a new entry; a full cache first drops its least recently used entry
Insert(c, args, val, maxsize) ==
    IF Len(c) >= maxsize THEN Append(Tail(c), [key |-> args, val |-> val])
    ELSE Append(c, [key |-> args, val |-> val])

\* variant: the computed value is stored without looking for the key again
StoreAgain(c, args, val, maxsize) == Insert(c, args, val, maxsize)

\* after the function has run: the value is stored unless the key has been
\* stored in the meantime
Store(c, args, val, maxsize) ==
    IF Find(c, args) > 0 THEN c ELSE Insert(c, args, val, maxsize)

(***************************************************************************)
(* The symbolic library, for the expressions of the workload: what         *)
(* sympify, diff, integrate, series and limit give for each of them.       *)
(***************************************************************************)
Expressions == {"x**2", "x**", "x**x", "1/x"}

\* sympify raises SympifyError on malformed text
Parses(expression) == expression # "x**"

diff1(expression) ==
    CASE expression = "x**2" -> "2*x"
      [] expression = "x**3" -> "3*x**2"
      [] expression = "x**3 - 3*x" -> "3*x**2 - 3"
      [] expression = "x**3 + 3*x" -> "3*x**2 + 3"
      [] expression = "x**4 - 2*x**2" -> "4*x**3 - 4*x"
      [] expression = "1" -> "0"
      [] expression = "x**x" -> "x**x*(log(x) + 1)"
      [] expression = "1/x"  -> "-1/x**2"

diff2(expression) ==
    CASE expression = "x**2" -> "2"
      [] expression = "x**x" -> "x**x*(log(x) + 1)**2 + x**x/x"
      [] expression = "1/x"  -> "2/x**3"

\* integrate returns the integral unevaluated when it finds no closed form
integrate(expression) ==
    CASE expression = "x**2" -> "x**3/3"
      [] expression = "x**x" -> "Integral(x**x, x)"
      [] expression = "1/x"  -> "log(x)"
      [] expression = "log(x)" -> "x*log(x) - x"

HasClosedForm(expression) == expression # "x**x"

\* float(expr.subs(x, x0).evalf()) fails where the value is not a real number
EvaluatesAt(expression, x0) == ~(expression = "1/x" /\ x0.v = 0)

\* what the lambdified expression gives at the whole number k under numpy:
\* a division by zero is an infinity, log(0) is -inf, log of a negative
\* number is nan; none of them raises
Numeric(expression, k) ==
    CASE expression = "x**2" -> Fin(ToString(k * k))
      [] expression = "x**2 - 1" -> Fin(ToString(k * k - 1))
      [] expression = "2*x"  -> Fin(ToString(2 * k))
      [] expression = "2"    -> Fin("2")
      [] expression = "1/x"  -> IF k = 0 THEN PosInf ELSE Fin("1/" \o ToString(k))
      [] expression = "-1/x**2" -> IF k = 0 THEN NegInf ELSE Fin("-1/" \o ToString(k * k))
      [] expression = "log(x)" ->
            IF k < 0 THEN NaN ELSE IF k = 0 THEN NegInf ELSE Fin("log(" \o ToString(k) \o ")")
      [] expression = "x**x" -> Fin(ToString(k) \o "**" \o ToString(k))
      [] expression = "x**x*(log(x) + 1)" ->
            IF k < 0 THEN NaN ELSE IF k = 0 THEN NegInf
            ELSE Fin(ToString(k) \o "**" \o ToString(k) \o "*(log(" \o ToString(k) \o ") + 1)")

\* FunctionAnalyzer._safe_compute over the samples
_safe_compute(expression, ks) == [i \in 1..Len(ks) |-> Numeric(expression, ks[i])]

\* f(x0), f'(x0) for the expression x**2, as floats
F(x0)  == PyFloat(x0.v * x0.v)
DF(x0) == PyFloat(2 * x0.v)

(***************************************************************************)
(* calculus.FunctionAnalyzer                                               *)
(***************************************************************************)
ParseMessage(expression) == "SympifyError: " \o expression

FunctionAnalyzer_analyze(expression, domain, resolution) ==
    IF ~Parses(expression.s)
    THEN create_error_result("analyze", ParseMessage(expression.s))
    ELSE ComputationResult("ok", "analyze",
            [expression        |-> expression.s,
             derivative        |-> diff1(expression.s),
             second_derivative |-> diff2(expression.s),
             domain            |-> "[" \o Repr(domain[1]) \o ", " \o Repr(domain[2]) \o "]"],
            << "Function: f(x) = " \o expression.s,
               "Derivative: f'(x) = " \o diff1(expression.s),
               "Second derivative: f''(x) = " \o diff2(expression.s),
               "Domain analyzed: [" \o Repr(domain[1]) \o ", " \o Repr(domain[2]) \o "]" >>,
            LET ks == Grid(domain[1].v, domain[2].v)
                xs == linspace(domain[1].v, domain[2].v)
            IN  << PlotCurve("curve", "f(x)", ZipFinite(xs, _safe_compute(expression.s, ks))),
                   PlotCurve("curve", "f'(x)",
                             ZipFinite(xs, _safe_compute(diff1(expression.s), ks))) >>)

derivative_at(expression, x0) ==
    IF ~Parses(expression.s)
    THEN create_error_result("derivative_at", ParseMessage(expression.s))
    ELSE IF ~EvaluatesAt(expression.s, x0)
    THEN create_error_result("derivative_at", "Cannot convert complex to float")
    ELSE ComputationResult("ok", "derivative_at",
            [x     |-> Repr(x0),
             y     |-> Repr(F(x0)),
             slope |-> Repr(DF(x0)),
             tangent_equation |-> "y = " \o format_latex_number(DF(x0)) \o "(x - "
                                  \o Repr(x0) \o ") + " \o format_latex_number(F(x0))],
            << "Given: f(x) = " \o expression.s,
               "f'(x) = " \o diff1(expression.s),
               "At x = " \o Repr(x0) \o ": f(" \o Repr(x0) \o ") = " \o format_latex_number(F(x0)),
               "Slope: f'(" \o Repr(x0) \o ") = " \o format_latex_number(DF(x0)),
               "Tangent line: y - " \o format_latex_number(F(x0)) \o " = "
                   \o format_latex_number(DF(x0)) \o "(x - " \o Repr(x0) \o ")" >>,
            << PlotElement("point", "P(" \o format_latex_number(x0) \o ", "
                                    \o format_latex_number(F(x0)) \o ")"),
               PlotElement("line", "Tangent") >>)

\* the value integrate(expr, (x, a, b)).evalf() gives: F(b) - F(a) for x**2,
\* a numerical quadrature (of x**x over [1, 2]) when the integral stays
\* unevaluated
\* unevaluated; log(x) over [0, 1], an improper integral, is -1
DefiniteValue(expression, a, b) ==
    CASE expression = "x**2"   -> ToString((b.v * b.v * b.v - a.v * a.v * a.v) \div 3)
      [] expression = "log(x)" -> "-1"
      [] OTHER                 -> "2.05045"

definite_integral(expression, a, b) ==
    IF ~Parses(expression.s)
    THEN create_error_result("definite_integral", ParseMessage(expression.s))
    ELSE ComputationResult("ok", "definite_integral",
            [lower_limit    |-> Repr(a),
             upper_limit    |-> Repr(b),
             antiderivative |-> integrate(expression.s),
             result         |-> DefiniteValue(expression.s, a, b)],
            << "Given: f(x) = " \o expression.s,
               "Antiderivative: F(x) = " \o integrate(expression.s) \o " + C",
               "Definite integral: int_{" \o Repr(a) \o "}^{" \o Repr(b) \o "} f(x) dx",
               "= F(" \o Repr(b) \o ") - F(" \o Repr(a) \o ")",
               "= " \o DefiniteValue(expression.s, a, b) >>,
            LET area_points == Zip(linspace(a.v, b.v),
                                   _safe_compute(expression.s, Grid(a.v, b.v)))
            IN  << PlotCurve("area", "", area_points),
                   PlotCurve("curve", "f(x)", area_points) >>)

\* x**2: the one zero of f' is x = 0, where f'' = 2 > 0
\* the coefficients c0, c1, ... of the polynomial an expression denotes
Coeffs(expression) ==
    CASE expression = "x**2"          -> <<0, 0, 1>>
      [] expression = "x**3"          -> <<0, 0, 0, 1>>
      [] expression = "x**3 - 3*x"    -> <<0, -3, 0, 1>>
      [] expression = "x**3 + 3*x"    -> <<0, 3, 0, 1>>
      [] expression = "x**4 - 2*x**2" -> <<0, 0, -2, 0, 1>>
      [] expression = "1"             -> <<1>>

\* diff(p, x)
PolyDiff(p) == IF Len(p) <= 1 THEN <<>> ELSE [k \in 1..(Len(p) - 1) |-> k * p[k + 1]]

\* p.subs(x, x0).evalf()
PolyEval(p, x0) ==
    LET Horner[k \in 0..Len(p)] ==
            IF k = 0 THEN 0 ELSE Horner[k - 1] * x0 + p[Len(p) - k + 1]
    IN  Horner[Len(p)]

ZeroRange == 3

\* variant: the zeros with their multiplicities, a repeated zero twice
solveset_repeated(p) ==
    LET Z == {z \in -ZeroRange..ZeroRange : PolyEval(p, z) = 0}
        R == {z \in Z : PolyEval(PolyDiff(p), z) = 0}
        once == [i \in 1..Cardinality(Z) |->
                    CHOOSE z \in Z : Cardinality({y \in Z : y < z}) = i - 1]
        more == [i \in 1..Cardinality(R) |->
                    CHOOSE z \in R : Cardinality({y \in R : y < z}) = i - 1]
    IN  [iterable |-> TRUE, zeros |-> once \o more]

\* solveset(p, x, domain=S.Reals): the real zeros in increasing order, each
\* once whatever its multiplicity; the zero polynomial gives S.Reals, which
\* has no __iter__
solveset(p) ==
    IF \A k \in 1..Len(p) : p[k] = 0 THEN [iterable |-> FALSE, zeros |-> <<>>]
    ELSE LET Z == {z \in -ZeroRange..ZeroRange : PolyEval(p, z) = 0}
         IN  [iterable |-> TRUE,
              zeros |-> [i \in 1..Cardinality(Z) |->
                            CHOOSE z \in Z : Cardinality({y \in Z : y < z}) = i - 1]]

\* domain is <<None>> or <<lo, hi>>
critical_points(expression, domain) ==
    IF ~Parses(expression.s)
    THEN create_error_result("critical_points", ParseMessage(expression.s))
    ELSE
    LET f  == Coeffs(expression.s)
        d1 == PolyDiff(f)
        d2 == PolyDiff(d1)
        critical_x == solveset(d1)
        \* if domain and (cx_val < domain[0] or cx_val > domain[1]): continue
        kept(cx) == ~ (Len(domain) = 2 /\ (cx < domain[1].v \/ cx > domain[2].v))
        classify(v) == IF v > 0 THEN "local minimum"
                       ELSE IF v < 0 THEN "local maximum" ELSE "inflection point"
        point(cx) == [x |-> cx, y |-> PolyEval(f, cx),
                      type |-> classify(PolyEval(d2, cx)),
                      second_derivative |-> PolyEval(d2, cx)]
        points == SelectSeq([i \in 1..Len(critical_x.zeros) |-> point(critical_x.zeros[i])],
                            LAMBDA pt : kept(pt.x))
    IN  IF ~critical_x.iterable
        THEN ComputationResult("ok", "critical_points", [points |-> <<>>],
                << "Given: f(x) = " \o expression.s,
                   "f'(x) = " \o diff1(expression.s),
                   "Could not enumerate critical points from the solution set." >>,
                <<>>)
        ELSE ComputationResult("ok", "critical_points", [points |-> points],
                << "Given: f(x) = " \o expression.s,
                   "f'(x) = " \o diff1(expression.s),
                   "Setting f'(x) = 0:",
                   "Found " \o ToString(Len(points)) \o " critical point(s)" >>
                \o [i \in 1..Len(points) |->
                        "  * x = " \o ToString(points[i].x) \o ": " \o points[i].type
                            \o " at y = " \o ToString(points[i].y)],
                IF points # <<>> THEN << PlotElement("points", "critical points") >> ELSE <<>>)

\* the default domain of taylor_series
TaylorDomain == <<-5, 5>>

taylor_series(expression, center, order) ==
    IF ~Parses(expression.s)
    THEN create_error_result("taylor_series", ParseMessage(expression.s))
    ELSE ComputationResult("ok", "taylor_series",
            [center |-> Repr(center), order |-> Repr(order), series |-> expression.s],
            << "Function: f(x) = " \o expression.s,
               "Taylor series about x = " \o Repr(center) \o ", order " \o Repr(order) \o ":",
               "T(x) = " \o expression.s >>,
            LET ks == Grid(TaylorDomain[1], TaylorDomain[2])
                xs == linspace(TaylorDomain[1], TaylorDomain[2])
                ys == _safe_compute(expression.s, ks)
            IN  << PlotCurve("curve", "f(x)", ZipFinite(xs, ys)),
                   PlotCurve("curve", "Taylor", ZipFinite(xs, ys)),
                   PlotElement("point", "Center") >>)

(***************************************************************************)
(* calculus: the module-level entry points.  An argument tuple is written  *)
(* flat: a (lo, hi) domain is two consecutive components, None is one.     *)
(***************************************************************************)
PyNone == [t |-> "None", s |-> "", v |-> 0]

analyze_function(args) ==
    IF ~Parses(args[1].s)
    THEN create_error_result("analyze", ParseMessage(args[1].s))
    ELSE FunctionAnalyzer_analyze(args[1], <<args[2], args[3]>>, args[4])

compute_derivative(args) ==
    IF ~Parses(args[1].s)
    THEN create_error_result("derivative", ParseMessage(args[1].s))
    ELSE derivative_at(args[1], args[2])

compute_integral(args) ==
    IF ~Parses(args[1].s)
    THEN create_error_result("integral", ParseMessage(args[1].s))
    ELSE definite_integral(args[1], args[2], args[3])

find_critical_points(args) ==
    IF ~Parses(args[1].s)
    THEN create_error_result("critical_points", ParseMessage(args[1].s))
    ELSE critical_points(args[1], Tail(args))

compute_taylor(args) ==
    IF ~Parses(args[1].s)
    THEN create_error_result("taylor", ParseMessage(args[1].s))
    ELSE taylor_series(args[1], args[2], args[3])

\* str(limit(expr, x, point)): x**2 is continuous, 1/x has no two-sided limit at 0
LimitValue(expression, point) ==
    IF expression = "1/x" THEN "zoo"
    ELSE IF point.t = "float" THEN ToString(point.v * point.v) \o ".00000000000000"
    ELSE ToString(point.v * point.v)

compute_limit(args) ==
    IF ~Parses(args[1].s)
    THEN create_error_result("limit", "Invalid expression: " \o args[1].s)
    ELSE ComputationResult("ok", "limit",
            [expression |-> args[1].s,
             point      |-> Repr(args[2]),
             direction  |-> args[3].s,
             result     |-> LimitValue(args[1].s, args[2])],
            << "Limit expression: lim_{x -> " \o Repr(args[2]) \o "} (" \o args[1].s \o ")",
               "Evaluated limit: " \o LimitValue(args[1].s, args[2]) >>,
            <<>>)

compute_indefinite_integral(args) ==
    IF ~Parses(args[1].s)
    THEN create_error_result("indefinite_integral", "Invalid expression: " \o args[1].s)
    ELSE ComputationResult("ok", "indefinite_integral",
            [expression |-> args[1].s, result |-> integrate(args[1].s)],
            << "Integral expression: int (" \o args[1].s \o ") dx",
               "Computed antiderivative: " \o integrate(args[1].s) \o " + C" >>,
            <<>>)

\* equations of the workload: y' + y = x solves, y' +* y does not parse
OdeParses(equation) == equation = "y' + y = x"

solve_ode(args) ==
    IF ~OdeParses(args[1].s)
    THEN create_error_result("ode", "Invalid equation format. Use y' + y = x format.")
    ELSE ComputationResult("ok", "ode",
            [equation |-> args[1].s, solution |-> "Eq(y(x), C1*exp(-x) + x - 1)"],
            << "Differential Equation: " \o args[1].s,
               "General Solution: y(x) = C1*exp(-x) + x - 1" >>,
            <<>>)

PartialVariables == {"x", "y", "z"}

compute_partial_derivative(args) ==
    IF ~Parses(args[1].s)
    THEN create_error_result("partial_derivative", "Invalid expression: " \o args[1].s)
    ELSE IF args[2].s \notin PartialVariables
    THEN create_error_result("partial_derivative",
                             "Unknown variable: " \o args[2].s \o ". Use x, y, or z.")
    ELSE ComputationResult("ok", "partial_derivative",
            [expression |-> args[1].s,
             variable   |-> args[2].s,
             result     |-> IF args[2].s = "x" THEN diff1(args[1].s) ELSE "0"],
            << "Function: f(" \o args[2].s \o ", ...) = " \o args[1].s,
               "Partial derivative w.r.t " \o args[2].s \o ": d/d" \o args[2].s
                   \o " (" \o args[1].s \o ")",
               "Result: " \o (IF args[2].s = "x" THEN diff1(args[1].s) ELSE "0") >>,
            <<>>)

(***************************************************************************)
(* algebra: the memoized workers.  A worker returns a tuple (payload,      *)
(* steps, plot elements) or raises.                                        *)
(***************************************************************************)
WorkerTuple(payload, steps, plot_elements) ==
    [kind |-> "tuple", payload |-> payload, steps |-> steps, plot_elements |-> plot_elements]

\* an arithmetic result is a float as soon as one operand is
Arith(n, operands) ==
    IF \E o \in operands : o.t = "float" THEN PyFloat(n) ELSE PyInt(n)

Discriminant(a, b, c) == Arith(b.v * b.v - 4 * a.v * c.v, {a, b, c})

Abs(n) == IF n < 0 THEN -n ELSE n

\* str((-b +/- D**0.5) / (2*a)): written as the quotient the code forms; a
\* sympy quotient by zero is zoo, or nan when the numerator is zero as well
RootText(a, b, D, sign) ==
    IF a.v = 0
    THEN IF -b.v + sign * Abs(b.v) = 0 THEN "nan" ELSE "zoo"
    ELSE "(" \o ToString(-b.v) \o (IF sign > 0 THEN " + " ELSE " - ")
             \o "sqrt(" \o ToString(D.v) \o "))/" \o ToString(2 * a.v)

QuadraticPayload(a, b, D) ==
    IF D.v > 0
    THEN [roots |-> <<RootText(a, b, D, 1), RootText(a, b, D, -1)>>, type |-> "real_distinct"]
    ELSE IF D.v = 0
    THEN [roots |-> <<RootText(a, b, D, 1)>>, type |-> "real_repeated"]
    ELSE [roots |-> <<RootText(a, b, D, 1), RootText(a, b, D, -1)>>, type |-> "complex"]

QuadraticBranchStep(D) ==
    IF D.v > 0 THEN "D > 0, so there are two distinct real roots."
    ELSE IF D.v = 0 THEN "D = 0, so there is one repeated real root."
    ELSE "D < 0, so there are two complex conjugate roots."

\* the plotting block: vx = -b / (2*a) comes first, and a ZeroDivisionError
\* there leaves the block with nothing appended
QuadraticPlot(a, b, D) ==
    IF a.v = 0 THEN <<>>
    ELSE <<PlotElement("curve", "f(x)")>>
         \o (IF D.v >= 0 THEN <<PlotElement("point", "x1")>> ELSE <<>>)
         \o (IF D.v > 0 THEN <<PlotElement("point", "x2")>> ELSE <<>>)

_solve_quadratic(args) ==
    LET a == args[1]
        b == args[2]
        c == args[3]
        D == Discriminant(a, b, c)
    IN  WorkerTuple(
            QuadraticPayload(a, b, D),
            << "Equation: " \o Repr(a) \o "x^2 + " \o Repr(b) \o "x + " \o Repr(c) \o " = 0",
               "Discriminant (D) = b^2 - 4ac = (" \o Repr(b) \o ")^2 - 4(" \o Repr(a)
                   \o ")(" \o Repr(c) \o ") = " \o Repr(D),
               QuadraticBranchStep(D),
               "Root 1: x = " \o RootText(a, b, D, 1),
               "Root 2: x = " \o RootText(a, b, D, -1) >>,
            QuadraticPlot(a, b, D))

\* polynomials of the workload: x**2 - 1 parses, x** does not
safe_sympify_error(expression) ==
    Raised("ValueError", "Invalid expression: " \o expression \o " (SympifyError)")

_analyze_polynomial_cached(args) ==
    IF ~Parses(args[1].s) THEN safe_sympify_error(args[1].s)
    ELSE WorkerTuple(
            [expression |-> args[1].s,
             factored   |-> "(x - 1)*(x + 1)",
             roots      |-> << [value |-> "-1", multiplicity |-> 1],
                               [value |-> "1", multiplicity |-> 1] >>],
            << "Polynomial: P(x) = " \o args[1].s,
               "Factored Form: (x - 1)(x + 1)",
               "Roots:",
               "  x = -1 (multiplicity 1)",
               "  x = 1 (multiplicity 1)" >>,
            \* the real roots are -1 and 1: the domain is (-2, 2)
            << PlotCurve("curve", "P(x)",
                         Zip(linspace(-2, 2), _safe_compute(args[1].s, Grid(-2, 2)))),
               PlotElement("point", "Root: -1"), PlotElement("point", "Root: 1") >>)

\* complex expressions of the workload: 3 + 4*I is a number, x + 1 has a free symbol
IsSymbolic(expression) == expression = "x + 1"

_calculate_complex(args) ==
    IF ~Parses(args[1].s) THEN safe_sympify_error(args[1].s)
    ELSE IF IsSymbolic(args[1].s)
    THEN Raised("ValueError", "Expression must be a numeric complex number, not symbolic.")
    ELSE WorkerTuple(
            [expression |-> args[1].s, real |-> "3", imaginary |-> "4",
             modulus |-> "5", argument |-> "atan(4/3)"],
            << "Input: z = 3 + 4i",
               "Standard Form: 3 + 4i",
               "Modulus (r): |z| = 5",
               "Argument (theta): arg(z) = atan(4/3)",
               "Polar Form: 5e^{i atan(4/3)}" >>,
            << PlotElement("arrow", "z"), PlotElement("point", "(3, 4)") >>)

\* the public wrapper of a worker: the tuple becomes an 'ok' result, an
\* exception of the worker an error result
WorkerResult(operation, out) ==
    IF out.kind = "raise" THEN create_error_result(operation, out.message)
    ELSE ComputationResult("ok", operation, out.payload, out.steps, out.plot_elements)

QuadraticSolver_solve(out)           == WorkerResult("quadratic_solve", out)
PolynomialSolver_analyze(out)        == WorkerResult("polynomial_analysis", out)
ComplexNumberCalculator_calculate(out) == WorkerResult("complex_analysis", out)

(***************************************************************************)
(* Comparisons with a tolerance (1e-10 for determinants, 1e-9 and 1e-5 in  *)
(* geometry).  Quantities are integers in a unit the call names: "1" for   *)
(* whole numbers, or "tick", the tolerance being TolTicks ticks.           *)
(***************************************************************************)
TolTicks == 2

\* the sign of abs(x / den) - tolerance, den > 0; a multiple of 1/den
\* is 0 or at least 1/den
CompareTolOver(x, den, unit) ==
    IF unit = "1" THEN (IF x = 0 THEN -1 ELSE 1)
    ELSE IF Abs(x) < TolTicks * den THEN -1
    ELSE IF Abs(x) = TolTicks * den THEN 0 ELSE 1

\* the sign of abs(x) - tolerance
CompareTol(x, unit) == CompareTolOver(x, 1, unit)

\* the sign of abs(x) - tolerance for x a product of two lengths: a product
\* of two counts of ticks is TolTicks^2 / tolerance times smaller than the
\* tolerance, out of reach of the lengths of the calls
CompareTolSq(x, unit) ==
    IF unit = "1" THEN (IF x = 0 THEN -1 ELSE 1) ELSE -1

(***************************************************************************)
(* geometry: the entry points that take an operation or shape tag.         *)
(* Vectors are sequences of integers; None and [] are the empty sequence.  *)
(***************************************************************************)
RECURSIVE DotProduct(_, _)
DotProduct(v1, v2) ==
    IF v1 = <<>> THEN 0 ELSE Head(v1) * Head(v2) + DotProduct(Tail(v1), Tail(v2))

\* str of v.norm(): the root is kept symbolic
Norm(v) == "sqrt(" \o ToString(DotProduct(v, v)) \o ")"

Scaled(v, factor) == [i \in 1..Len(v) |-> ToString(v[i]) \o factor]

CrossProduct(v1, v2) ==
    << v1[2] * v2[3] - v1[3] * v2[2],
       v1[3] * v2[1] - v1[1] * v2[3],
       v1[1] * v2[2] - v1[2] * v2[1] >>

\* the body of VectorCalculator.analyze inside its try
VectorBody(v1, v2, operation) ==
    IF operation = "properties"
    THEN ComputationResult("ok", "vector_properties",
            [magnitude |-> Norm(v1), unit_vector |-> Scaled(v1, "/" \o Norm(v1))],
            << "Vector v = " \o ToString(v1),
               "Magnitude |v| = " \o Norm(v1),
               "Unit Vector = v / |v| = " \o ToString(Scaled(v1, "/" \o Norm(v1))) >>,
            << PlotElement(IF Len(v1) = 3 THEN "vector_3d" ELSE "vector_2d", "v") >>)
    ELSE IF v2 # <<>> /\ operation = "dot"
    THEN IF Len(v1) # Len(v2) THEN Raised("ShapeError", "Dimensions incorrect for dot product")
         ELSE ComputationResult("ok", "vector_operation",
                [result |-> ToString(DotProduct(v1, v2))],
                << "v1 . v2 = (" \o ToString(v1[1]) \o "*" \o ToString(v2[1]) \o ") + ... = "
                       \o ToString(DotProduct(v1, v2)) >>,
                <<>>)
    ELSE IF v2 # <<>> /\ operation = "cross"
    THEN IF Len(v1) # 3 \/ Len(v2) # 3
         THEN Raised("ValueError", "Cross product requires 3D vectors")
         ELSE ComputationResult("ok", "vector_operation",
                [result |-> CrossProduct(v1, v2)],
                << "v1 x v2 = Determinant method = " \o ToString(CrossProduct(v1, v2)) >>,
                <<>>)
    ELSE IF v2 # <<>> /\ operation = "angle"
    THEN IF Len(v1) # Len(v2) THEN Raised("ShapeError", "Dimensions incorrect for dot product")
         ELSE ComputationResult("ok", "vector_operation",
                [degrees |-> "acos(" \o ToString(DotProduct(v1, v2)) \o "/(" \o Norm(v1)
                             \o "*" \o Norm(v2) \o "))*180/pi"],
                << "cos(theta) = (v1 . v2) / (|v1| |v2|)",
                   "cos(theta) = " \o ToString(DotProduct(v1, v2)) \o " / (" \o Norm(v1)
                       \o " * " \o Norm(v2) \o ")",
                   "theta = acos(" \o ToString(DotProduct(v1, v2)) \o "/(" \o Norm(v1)
                       \o "*" \o Norm(v2) \o "))*180/pi" >>,
                <<>>)
    ELSE IF v2 # <<>> /\ operation = "projection"
    THEN IF Len(v1) # Len(v2) THEN Raised("ShapeError", "Dimensions incorrect for dot product")
         ELSE ComputationResult("ok", "vector_operation",
                [result |-> Scaled(v2, "*" \o ToString(DotProduct(v1, v2)) \o "/"
                                       \o ToString(DotProduct(v2, v2)))],
                << "Proj_v2(v1) = ((v1.v2)/|v2|^2) * v2",
                   "Result: " \o ToString(Scaled(v2, "*" \o ToString(DotProduct(v1, v2)) \o "/"
                                                     \o ToString(DotProduct(v2, v2)))) >>,
                <<>>)
    \* no branch taken: the empty payload is returned as an 'ok' result
    ELSE ComputationResult("ok", "vector_operation", <<>>, <<>>, <<>>)

\* variant: no except clause, the exception leaves the entry point
Unguarded(operation, out) == out

\* try: body / except Exception as e: create_error_result(operation, str(e))
Guarded(operation, out) ==
    IF out.kind = "raise" THEN create_error_result(operation, out.message) ELSE out

VectorCalculator_analyze(args) == Guarded("vector_calc", VectorBody(args[1], args[2], args[3]))

\* a multiple of pi, kept symbolic
PiTimes(n) == ToString(n) \o "*pi"

SolidityBody(shape, params) ==
    CASE shape = "cube" ->
            ComputationResult("ok", "mensuration_solid",
                [volume |-> ToString(params.side * params.side * params.side),
                 tsa    |-> ToString(6 * params.side * params.side),
                 lsa    |-> ToString(4 * params.side * params.side)],
                << "Side a = " \o ToString(params.side),
                   "Volume = a^3 = " \o ToString(params.side * params.side * params.side),
                   "Total Surface Area = 6a^2 = " \o ToString(6 * params.side * params.side),
                   "Lateral Surface Area = 4a^2 = " \o ToString(4 * params.side * params.side) >>,
                <<>>)
      [] shape = "cuboid" ->
            ComputationResult("ok", "mensuration_solid",
                [volume |-> ToString(params.l * params.b * params.h),
                 tsa    |-> ToString(2 * (params.l * params.b + params.b * params.h
                                          + params.h * params.l)),
                 lsa    |-> ToString(2 * params.h * (params.l + params.b))],
                << "Dimensions: l=" \o ToString(params.l) \o ", b=" \o ToString(params.b)
                       \o ", h=" \o ToString(params.h),
                   "Volume = lbh = " \o ToString(params.l * params.b * params.h),
                   "TSA = 2(lb + bh + hl) = "
                       \o ToString(2 * (params.l * params.b + params.b * params.h
                                        + params.h * params.l)),
                   "LSA = 2h(l + b) = " \o ToString(2 * params.h * (params.l + params.b)) >>,
                <<>>)
      [] shape = "cylinder" ->
            ComputationResult("ok", "mensuration_solid",
                [volume |-> PiTimes(params.r * params.r * params.h),
                 csa    |-> PiTimes(2 * params.r * params.h),
                 tsa    |-> PiTimes(2 * params.r * (params.r + params.h))],
                << "Radius r=" \o ToString(params.r) \o ", Height h=" \o ToString(params.h),
                   "Volume = pi r^2 h = " \o PiTimes(params.r * params.r * params.h),
                   "Curved SA = 2 pi r h = " \o PiTimes(2 * params.r * params.h),
                   "Total SA = 2 pi r(r+h) = " \o PiTimes(2 * params.r * (params.r + params.h)) >>,
                <<>>)
      [] shape = "cone" ->
            ComputationResult("ok", "mensuration_solid",
                [volume |-> PiTimes(params.r * params.r * params.h) \o "/3",
                 csa    |-> PiTimes(params.r) \o "*l",
                 tsa    |-> PiTimes(params.r) \o "*(r+l)"],
                << "Radius r=" \o ToString(params.r) \o ", Height h=" \o ToString(params.h),
                   "Slant Height l = sqrt(r^2 + h^2) = sqrt("
                       \o ToString(params.r * params.r + params.h * params.h) \o ")",
                   "Volume = (1/3) pi r^2 h = " \o PiTimes(params.r * params.r * params.h) \o "/3",
                   "Curved SA = pi r l = " \o PiTimes(params.r) \o "*l",
                   "Total SA = pi r(r+l) = " \o PiTimes(params.r) \o "*(r+l)" >>,
                <<>>)
      [] shape = "sphere" ->
            ComputationResult("ok", "mensuration_solid",
                [volume |-> PiTimes(4 * params.r * params.r * params.r) \o "/3",
                 tsa    |-> PiTimes(4 * params.r * params.r)],
                << "Radius r=" \o ToString(params.r),
                   "Volume = (4/3) pi r^3 = " \o PiTimes(4 * params.r * params.r * params.r) \o "/3",
                   "Surface Area = 4 pi r^2 = " \o PiTimes(4 * params.r * params.r) >>,
                <<>>)
      [] OTHER -> Raised("ValueError", "Unknown shape: " \o shape)

Mensuration_solidity(args) == Guarded("mensuration", SolidityBody(args[1], args[2]))

\* (cos, sin) of a right-angle multiple, in degrees
CosSin(angle) ==
    CASE angle % 360 = 0   -> <<1, 0>>
      [] angle % 360 = 90  -> <<0, 1>>
      [] angle % 360 = 180 -> <<-1, 0>>
      [] angle % 360 = 270 -> <<0, -1>>

Pair(px, py) == "(" \o ToString(px) \o ", " \o ToString(py) \o ")"

TransformResult(steps, nx, ny) ==
    ComputationResult("ok", "transform_2d",
        [point |-> [x |-> ToString(nx), y |-> ToString(ny)]],
        steps \o << "Transformed Point P': " \o Pair(nx, ny) >>,
        <<>>)

GeometricTransformer_transform_2d(args) ==
    LET point     == args[1]
        operation == args[2]
        params    == args[3]
        px == point.x
        py == point.y
        steps == << "Original Point P: " \o Pair(px, py) >>
    IN  CASE operation = "rotate" ->
                LET cs == CosSin(params.angle)
                    tx == px - params.cx
                    ty == py - params.cy
                IN  TransformResult(
                        steps \o << "Center of Rotation C: " \o Pair(params.cx, params.cy),
                                    "Angle: " \o ToString(params.angle),
                                    "Formula: x' = (x-cx)cos t - (y-cy)sin t + cx",
                                    "Formula: y' = (x-cx)sin t + (y-cy)cos t + cy" >>,
                        tx * cs[1] - ty * cs[2] + params.cx,
                        tx * cs[2] + ty * cs[1] + params.cy)
          [] operation = "reflect" ->
                LET denom == params.a * params.a + params.b * params.b
                IN  IF denom = 0
                    THEN create_error_result("transform_2d", "Invalid line (a=b=0)")
                    ELSE LET num == params.a * px + params.b * py + params.c
                         IN  TransformResult(
                                steps \o << "Line of Reflection: " \o ToString(params.a) \o "x + "
                                                \o ToString(params.b) \o "y + "
                                                \o ToString(params.c) \o " = 0",
                                            "Formula: (x'-x)/a = (y'-y)/b = -2(ax+by+c)/(a^2+b^2)" >>,
                                px - (2 * params.a * num) \div denom,
                                py - (2 * params.b * num) \div denom)
          [] operation = "translate" ->
                TransformResult(
                    steps \o << "Vector: <" \o ToString(params.dx) \o ", "
                                    \o ToString(params.dy) \o ">" >>,
                    px + params.dx, py + params.dy)
          [] operation = "scale" ->
                TransformResult(
                    steps \o << "Center: " \o Pair(params.cx, params.cy) \o ", Factor k="
                                    \o ToString(params.factor),
                                "Formula: P' = C + k(P-C)" >>,
                    params.cx + params.factor * (px - params.cx),
                    params.cy + params.factor * (py - params.cy))
          [] OTHER -> create_error_result("transform_2d", "Unknown operation: " \o operation)

Triple(px, py, pz) ==
    "(" \o ToString(px) \o ", " \o ToString(py) \o ", " \o ToString(pz) \o ")"

ConicoidBody(shape, params) ==
    CASE shape = "sphere" ->
            ComputationResult("ok", "conicoid_analysis", <<>>,
                << "Center C: " \o Triple(params.cx, params.cy, params.cz),
                   "Radius r: " \o ToString(params.r),
                   "Equation: (x-" \o ToString(params.cx) \o ")^2 + (y-" \o ToString(params.cy)
                       \o ")^2 + (z-" \o ToString(params.cz) \o ")^2 = " \o ToString(params.r)
                       \o "^2" >>,
                << PlotElement("surface", "Sphere") >>)
      [] shape = "ellipsoid" ->
            ComputationResult("ok", "conicoid_analysis", <<>>,
                << "Center C: " \o Triple(params.cx, params.cy, params.cz),
                   "Semi-axes: a=" \o ToString(params.a) \o ", b=" \o ToString(params.b)
                       \o ", c=" \o ToString(params.c),
                   "Equation: (x-" \o ToString(params.cx) \o ")^2/" \o ToString(params.a)
                       \o "^2 + (y-" \o ToString(params.cy) \o ")^2/" \o ToString(params.b)
                       \o "^2 + (z-" \o ToString(params.cz) \o ")^2/" \o ToString(params.c)
                       \o "^2 = 1" >>,
                << PlotElement("surface", "Ellipsoid") >>)
      [] shape = "cone" ->
            \* the mesh divides r by h
            IF params.h = 0 THEN Raised("ZeroDivisionError", "float division by zero")
            ELSE ComputationResult("ok", "conicoid_analysis", <<>>,
                    << "Cone: r=" \o ToString(params.r) \o ", h=" \o ToString(params.h) >>,
                    << PlotElement("surface", "Cone") >>)
      [] shape = "cylinder" ->
            ComputationResult("ok", "conicoid_analysis", <<>>,
                << "Cylinder: r=" \o ToString(params.r) \o ", h=" \o ToString(params.h) >>,
                << PlotElement("surface", "Cylinder") >>)
      [] shape = "hyperboloid1" ->
            ComputationResult("ok", "conicoid_analysis", <<>>,
                << "Hyperboloid of One Sheet" >>,
                << PlotElement("surface", "Hyperboloid (1 Sheet)") >>)
      [] shape = "hyperboloid2" ->
            ComputationResult("ok", "conicoid_analysis", <<>>,
                << "Hyperboloid of Two Sheets" >>,
                << PlotElement("surface", "Top Sheet"), PlotElement("surface", "Bottom Sheet") >>)
      [] shape = "paraboloid" ->
            ComputationResult("ok", "conicoid_analysis", <<>>,
                << "Elliptic Paraboloid" >>,
                << PlotElement("surface", "Paraboloid") >>)
      [] OTHER -> create_error_result("conicoid", "Unknown shape: " \o shape)

Conicoid3D_analyze(args) == Guarded("conicoid", ConicoidBody(args[1], args[2]))

(***************************************************************************)
(* geometry: circles, lines and tangents.  A call is the two dictionaries  *)
(* and the unit its lengths are counted in.                                *)
(***************************************************************************)
\* math.sqrt, on the perfect squares the calls are made of
Sqrt(n) == CHOOSE r \in 0..n : r * r = n

CircleCircleBody(c1, c2, unit) ==
    LET h1 == c1.x   k1 == c1.y   r1 == c1.r
        h2 == c2.x   k2 == c2.y   r2 == c2.r
        d  == Sqrt((h2 - h1) * (h2 - h1) + (k2 - k1) * (k2 - k1))
        done(status, step, points) ==
            ComputationResult("ok", "circle_circle_intersection",
                [status |-> status, points |-> points, distance |-> d],
                << "Circle 1: Center " \o Pair(h1, k1) \o ", Radius " \o ToString(r1),
                   "Circle 2: Center " \o Pair(h2, k2) \o ", Radius " \o ToString(r2),
                   "Distance between centers d = " \o ToString(d), step >>,
                <<>>)
        \* a = along / (2*d), h_val^2 = hsq / (2*d)^2
        along == r1 * r1 - r2 * r2 + d * d
        hsq   == IF 4 * d * d * r1 * r1 - along * along > 0
                 THEN 4 * d * d * r1 * r1 - along * along ELSE 0
        P(side) == [along |-> along, hsq |-> hsq, side |-> side]
    IN  IF d > r1 + r2 THEN done("disjoint_outside", "d > r1 + r2 (Separate circles)", <<>>)
        ELSE IF d < Abs(r1 - r2)
        THEN done("disjoint_inside", "d < |r1 - r2| (One inside other)", <<>>)
        ELSE IF d = 0 /\ r1 = r2 THEN done("coincident", "Identical circles", <<>>)
        ELSE IF d = 0 THEN Raised("ZeroDivisionError", "float division by zero")
        ELSE IF CompareTol(d - (r1 + r2), unit) < 0 \/ CompareTol(d - Abs(r1 - r2), unit) < 0
        THEN done("tangent", "Circles touch at one point", << P(1) >>)
        ELSE done("intersecting", "Circles intersect at two points", << P(1), P(-1) >>)

circle_circle_intersection(args) ==
    Guarded("circle_circle_intersection", CircleCircleBody(args[1], args[2], args[3]))

\* variant: d < r and d > r are tested exactly, the tolerance last
LineCircleStatusExact(numer, denom, r, unit) ==
    IF numer < r * denom THEN "secant"
    ELSE IF numer > r * denom THEN "no_intersection"
    ELSE "tangent"

\* the branch taken for dist = numer / denom (0 when denom = 0)
LineCircleStatus(numer, denom, r, unit) ==
    LET n == IF denom = 0 THEN 0 ELSE numer
        q == IF denom = 0 THEN 1 ELSE denom
    IN  IF CompareTolOver(n - r * q, q, unit) < 0 THEN "tangent"
        ELSE IF n < r * q THEN "secant"
        ELSE "no_intersection"

\* a point is (x0n + side * t * dxc, y0n + side * t * dyc) / den with
\* t = d_chord * (a^2 + b^2) / denom
LineCircleBody(line, circle, unit) ==
    LET a == line.a   b == line.b   c == line.c
        h == circle.x   k == circle.y   r == circle.r
        numer == Abs(a * h + b * k + c)
        denom == Sqrt(a * a + b * b)
        status == LineCircleStatus(numer, denom, r, unit)
        P(side) == [x0n |-> b * (b * h - a * k) - a * c,
                    y0n |-> a * (a * k - b * h) - b * c,
                    den |-> a * a + b * b,
                    dxc |-> -b, dyc |-> a, side |-> side]
        points == IF status = "tangent" THEN << P(0) >>
                  ELSE IF status = "secant" THEN << P(1), P(-1) >> ELSE <<>>
    IN  IF status # "no_intersection" /\ a * a + b * b = 0
        THEN Raised("ZeroDivisionError", "float division by zero")
        ELSE ComputationResult("ok", "line_circle_intersection",
                [status |-> status, points |-> points,
                 distance |-> <<IF denom = 0 THEN 0 ELSE numer, IF denom = 0 THEN 1 ELSE denom>>],
                << "Line: " \o ToString(a) \o "x + " \o ToString(b) \o "y + " \o ToString(c) \o " = 0",
                   "Circle Center: " \o Pair(h, k) \o ", Radius: " \o ToString(r),
                   "Perpendicular Distance d from Center to Line: " \o ToString(numer)
                        \o "/" \o ToString(denom),
                   CASE status = "tangent" -> "d ~ r, Line is Tangent"
                     [] status = "secant"  -> "d < r, Line is Secant (2 points)"
                     [] OTHER              -> "d > r, No Intersection" >>,
                <<>>)

line_circle_intersection(args) ==
    Guarded("line_circle_intersection", LineCircleBody(args[1], args[2], args[3]))

\* the two lines have whole-number coefficients: abs(det) < 1e-9 is det = 0,
\* and dist < 1e-9 is c1 = c2 (dist is 0 when a1 = b1 = 0).  The point is
\* (xn / det, yn / det).
LineIntersectionBody(l1, l2) ==
    LET det == l1.a * l2.b - l2.a * l1.b
        dist_is_zero == IF l1.a * l1.a + l1.b * l1.b > 0 THEN l2.c = l1.c ELSE TRUE
        status == IF dist_is_zero THEN "coincident" ELSE "parallel"
        lines == << "Line 1: " \o Triple(l1.a, l1.b, l1.c), "Line 2: " \o Triple(l2.a, l2.b, l2.c),
                    "Determinant D = a1*b2 - a2*b1 = " \o ToString(det) >>
    IN  IF det = 0
        THEN ComputationResult("ok", "line_intersection", [status |-> status],
                lines \o << IF dist_is_zero
                            THEN "Lines are Coincident (Infinite intersections)"
                            ELSE "Lines are Parallel (No intersection)" >>,
                <<>>)
        ELSE ComputationResult("ok", "line_intersection",
                [status |-> "intersecting",
                 point  |-> [xn |-> l1.b * l2.c - l2.b * l1.c,
                             yn |-> l1.c * l2.a - l2.c * l1.a,
                             den |-> det]],
                lines \o << "x = (b1*c2 - b2*c1)/D", "y = (c1*a2 - c2*a1)/D", "Intersection" >>,
                <<>>)

line_intersection(args) ==
    Guarded("line_intersection", LineIntersectionBody(args[1], args[2]))

\* the branch taken for a point at distance dist from the centre
PointStatus(dist, r, unit) ==
    IF dist < r THEN "inside"
    ELSE IF CompareTol(dist - r, unit) < 0 THEN "on_circle"
    ELSE "outside"

\* the slopes of the tangents from an outside point: a slope is
\* (num + sign * sqrt(disc)) / den
TangentSlopes(dx, dy, r, unit) ==
    LET quad_a == dx * dx - r * r
        quad_b == 2 * dx * dy
        quad_c == dy * dy - r * r
        D_quad == quad_b * quad_b - 4 * quad_a * quad_c
        m(sign) == [num |-> -quad_b, disc |-> D_quad, sign |-> sign, den |-> 2 * quad_a]
    IN  IF CompareTolSq(quad_a, unit) < 0
        THEN IF CompareTolSq(quad_b, unit) > 0
             THEN << [num |-> -quad_c, disc |-> 0, sign |-> 0, den |-> quad_b] >>
             ELSE <<>>
        ELSE IF D_quad >= 0 THEN << m(1), m(-1) >> ELSE <<>>

\* a sloped line y - py = m(x - px) keeps c = py - m*px as <<py, m, px>>;
\* the centre (h, k) is the circle's x and y, as the API's converter sets them
TangentBody(point, circle, unit) ==
    LET px == point.x   py == point.y
        h  == circle.x  k  == circle.y  r == circle.r
        dist   == Sqrt((px - h) * (px - h) + (py - k) * (py - k))
        status == PointStatus(dist, r, unit)
        ms     == TangentSlopes(h - px, py - k, r, unit)
        vertical == CompareTol(Abs(h - px) - r, unit) < 0 /\ Len(ms) < 2
        tangents ==
            CASE status = "inside" -> <<>>
              [] status = "on_circle" ->
                    << [a |-> px - h, b |-> py - k,
                        c |-> -(px - h) * h - (py - k) * k - r * r] >>
              [] OTHER ->
                    (IF vertical THEN << [a |-> 1, b |-> 0, c |-> -px] >> ELSE <<>>)
                    \o [i \in 1..Len(ms) |-> [a |-> ms[i], b |-> -1, c |-> <<py, ms[i], px>>]]
    IN  ComputationResult("ok", "tangent_from_point",
            [status |-> status, tangents |-> tangents],
            << "Point P: " \o Pair(px, py),
               "Circle Center C: " \o Pair(h, k) \o ", Radius: " \o ToString(r),
               "Distance PC = " \o ToString(dist),
               CASE status = "inside" -> "Point is inside the circle. No real tangents."
                 [] status = "on_circle" -> "Point is on the circle. One tangent."
                 [] OTHER -> "Point is outside. Two tangents." >>
            \o (IF status = "on_circle" THEN << "Equation: tangent at P" >> ELSE <<>>)
            \o (IF status = "outside" /\ vertical
                THEN << "Vertical Tangent: x = " \o ToString(px) >> ELSE <<>>)
            \o (IF status = "outside"
                THEN [i \in 1..Len(ms) |-> "Slope m, Eq: y = m x + c"] ELSE <<>>),
            <<>>)

tangent_from_point(args) ==
    Guarded("tangent_from_point", TangentBody(args[1], args[2], args[3]))

(***************************************************************************)
(* geometry: QuadrilateralProperties.  A length is kept as its square, the *)
(* sum of two squares of whole numbers; two lengths are compared through   *)
(* their squares.                                                          *)
(***************************************************************************)
\* abs(sqrt(q1) - sqrt(q2)) < 1e-5, for squares q1 and q2 counted in the
\* square of the unit: whole numbers differ by far more than the tolerance
\* unless they are equal; in ticks the test is
\* q1 + q2 - TolTicks^2 < 2 * sqrt(q1 * q2)
LengthsEqual(q1, q2, unit) ==
    IF unit = "1" THEN q1 = q2
    ELSE LET lhs == q1 + q2 - TolTicks * TolTicks
         IN  lhs < 0 \/ lhs * lhs < 4 * q1 * q2

\* variant: the opposite-sides test comes first
QuadTypeOppFirst(s, d, unit) ==
    LET equal_sides == /\ LengthsEqual(s[1], s[2], unit)
                       /\ LengthsEqual(s[2], s[3], unit)
                       /\ LengthsEqual(s[3], s[4], unit)
        opp_sides_equal == LengthsEqual(s[1], s[3], unit) /\ LengthsEqual(s[2], s[4], unit)
        diags_equal == LengthsEqual(d[1], d[2], unit)
        rect_corner == CompareTolSq(d[1] - (s[1] + s[2]), unit) < 0
    IN  IF opp_sides_equal
        THEN (IF diags_equal \/ rect_corner THEN "Rectangle" ELSE "Parallelogram")
        ELSE IF equal_sides
        THEN (IF diags_equal \/ rect_corner THEN "Square" ELSE "Rhombus")
        ELSE "Quadrilateral"

\* qtype, from the squares s of the four sides and d of the two diagonals
QuadType(s, d, unit) ==
    LET equal_sides == /\ LengthsEqual(s[1], s[2], unit)
                       /\ LengthsEqual(s[2], s[3], unit)
                       /\ LengthsEqual(s[3], s[4], unit)
        opp_sides_equal == LengthsEqual(s[1], s[3], unit) /\ LengthsEqual(s[2], s[4], unit)
        diags_equal == LengthsEqual(d[1], d[2], unit)
        rect_corner == CompareTolSq(d[1] - (s[1] + s[2]), unit) < 0
    IN  IF equal_sides
        THEN (IF diags_equal \/ rect_corner THEN "Square" ELSE "Rhombus")
        ELSE IF opp_sides_equal
        THEN (IF diags_equal \/ rect_corner THEN "Rectangle" ELSE "Parallelogram")
        ELSE "Quadrilateral"

\* the square of d(i, j)
DistSq(P, i, j) ==
    (P[i].x - P[j].x) * (P[i].x - P[j].x) + (P[i].y - P[j].y) * (P[i].y - P[j].y)

\* args = <<p1, p2, p3, p4, unit>>; the payload keeps the squares of the
\* sides and diagonals and twice the shoelace area
QuadrilateralProperties_analyze(args) ==
    LET P == SubSeq(args, 1, 4)
        s == << DistSq(P, 1, 2), DistSq(P, 2, 3), DistSq(P, 3, 4), DistSq(P, 4, 1) >>
        d == << DistSq(P, 1, 3), DistSq(P, 2, 4) >>
        area2 == Abs((P[1].x * P[2].y + P[2].x * P[3].y + P[3].x * P[4].y + P[4].x * P[1].y)
                   - (P[1].y * P[2].x + P[2].y * P[3].x + P[3].y * P[4].x + P[4].y * P[1].x))
        qtype == QuadType(s, d, args[5])
    IN  Guarded("quadrilateral_analyze",
            ComputationResult("ok", "quadrilateral_analyze",
                [area |-> area2, sides |-> s, diagonals |-> d, type |-> qtype],
                << "Sides: AB, BC, CD, DA", "Diagonals: AC, BD",
                   "Area = " \o ToString(area2) \o "/2",
                   "Classification: " \o qtype >>,
                <<>>))

(***************************************************************************)
(* geometry: conic analysis.  h = B/2, g = D/2, f = E/2 are kept doubled:  *)
(* 8*Delta and 4*Disc have the signs and zeros of Delta and Disc.          *)
(***************************************************************************)
\* 8 * det [[cA, h, g], [h, cC, f], [g, f, cF]]
Delta8(cA, cB, cC, cD, cE, cF) ==
    2 * cA * (4 * cC * cF - cE * cE) - cB * (2 * cB * cF - cE * cD) + cD * (cB * cE - 2 * cC * cD)

\* variant: the discriminant is looked at before Delta
ConicTypeDiscFirst(cA, cB, cC, cD, cE, cF) ==
    LET Disc4 == cB * cB - 4 * cA * cC
    IN  IF Disc4 > 0 THEN "Hyperbola"
        ELSE IF Delta8(cA, cB, cC, cD, cE, cF) = 0
        THEN "Degenerate Conic (Pair of Lines, Point, etc.)"
        ELSE IF Disc4 = 0 THEN "Parabola"
        ELSE IF cA = cC /\ cB = 0 THEN "Circle" ELSE "Ellipse"

ConicType(cA, cB, cC, cD, cE, cF) ==
    LET Disc4 == cB * cB - 4 * cA * cC
    IN  IF Delta8(cA, cB, cC, cD, cE, cF) = 0
        THEN "Degenerate Conic (Pair of Lines, Point, etc.)"
        ELSE IF Disc4 > 0 THEN "Hyperbola"
        ELSE IF Disc4 = 0 THEN "Parabola"
        ELSE IF cA = cC /\ cB = 0 THEN "Circle" ELSE "Ellipse"

_analyze_conic_cached(args) ==
    LET conic_type == ConicType(args[1].v, args[2].v, args[3].v, args[4].v, args[5].v, args[6].v)
    IN  [kind |-> "tuple", conic_type |-> conic_type,
         steps |-> << "Equation: " \o Repr(args[1]) \o "x^2 + " \o Repr(args[2]) \o "xy + "
                        \o Repr(args[3]) \o "y^2 + " \o Repr(args[4]) \o "x + "
                        \o Repr(args[5]) \o "y + " \o Repr(args[6]) \o " = 0",
                      "Determinant 8*Delta = " \o ToString(Delta8(args[1].v, args[2].v, args[3].v,
                                                                  args[4].v, args[5].v, args[6].v)),
                      "Discriminant 4*(h^2-ab) = "
                        \o ToString(args[2].v * args[2].v - 4 * args[1].v * args[3].v),
                      "Classification: " \o conic_type >>]

ConicAnalyzer_analyze(out) ==
    IF out.kind = "raise" THEN create_error_result("conic_analyze", out.message)
    ELSE ComputationResult("ok", "conic_analyze",
            [type |-> out.conic_type, determinant |-> "...", discriminant |-> "..."],
            out.steps, <<>>)

(***************************************************************************)
(* matrices, and algebra.MatrixCalculator.operate.  A matrix is a sequence *)
(* of rows of integers.  Where a determinant is compared with 1e-10 the    *)
(* call also names the unit the first row of the matrix is counted in:     *)
(* "1", or "tick" (the determinant is linear in the first row, so it is    *)
(* then a count of ticks).                                                 *)
(***************************************************************************)
Rows(m) == Len(m)
Cols(m) == Len(m[1])

\* the error message, "" for None
_validate_matrix(matrix, name) ==
    IF matrix = <<>> THEN name \o " is empty"
    ELSE IF Cardinality({Len(matrix[i]) : i \in 1..Len(matrix)}) > 1
    THEN name \o " has inconsistent row lengths"
    ELSE ""

MatAdd(ma, mb, sign) ==
    [i \in 1..Rows(ma) |-> [j \in 1..Cols(ma) |-> ma[i][j] + sign * mb[i][j]]]

RowByCol(ma, mb, i, j) ==
    LET Sum[k \in 0..Cols(ma)] ==
            IF k = 0 THEN 0 ELSE Sum[k - 1] + ma[i][k] * mb[k][j]
    IN  Sum[Cols(ma)]

MatMul(ma, mb) ==
    [i \in 1..Rows(ma) |-> [j \in 1..Cols(mb) |-> RowByCol(ma, mb, i, j)]]

\* determinant of a 1x1 or 2x2 matrix
Det(m) ==
    IF Rows(m) = 1 THEN m[1][1] ELSE m[1][1] * m[2][2] - m[1][2] * m[2][1]

Dims(m) == ToString(Rows(m)) \o "x" \o ToString(Cols(m))

matrix_add(args) ==
    LET matrix_a == args[1]
        matrix_b == args[2]
    IN  IF _validate_matrix(matrix_a, "Matrix A") # ""
        THEN create_error_result("matrix_add", _validate_matrix(matrix_a, "Matrix A"))
        ELSE IF _validate_matrix(matrix_b, "Matrix B") # ""
        THEN create_error_result("matrix_add", _validate_matrix(matrix_b, "Matrix B"))
        ELSE IF Rows(matrix_a) # Rows(matrix_b) \/ Cols(matrix_a) # Cols(matrix_b)
        THEN create_error_result("matrix_add", "Matrices must have the same dimensions")
        ELSE ComputationResult("ok", "matrix_add",
                [matrix_a |-> matrix_a, matrix_b |-> matrix_b,
                 result |-> MatAdd(matrix_a, matrix_b, 1)],
                << "Matrix A (" \o Dims(matrix_a) \o ")",
                   "Matrix B (" \o Dims(matrix_b) \o ")",
                   "Element-wise addition: C[i][j] = A[i][j] + B[i][j]" >>,
                <<>>)

\* the inverse of a 2x2 matrix, entries written as quotients by the determinant
Inverse(m) ==
    LET q(n) == ToString(n) \o "/" \o ToString(Det(m))
    IN  IF Rows(m) = 1 THEN << << q(1) >> >>
        ELSE << << q(m[2][2]), q(-m[1][2]) >>, << q(-m[2][1]), q(m[1][1]) >> >>

matrix_inverse(args) ==
    LET matrix == args[1]
    IN  IF _validate_matrix(matrix, "Matrix") # ""
        THEN create_error_result("matrix_inverse", _validate_matrix(matrix, "Matrix"))
        ELSE IF Rows(matrix) # Cols(matrix)
        THEN create_error_result("matrix_inverse", "Matrix must be square")
        \* abs(det) < 1e-10
        ELSE IF CompareTol(Det(matrix), args[2]) < 0
        THEN ComputationResult("ok", "matrix_inverse",
                [matrix |-> matrix, determinant |-> ToString(Det(matrix)), invertible |-> FALSE],
                << "Determinant: " \o ToString(Det(matrix)),
                   "Matrix is singular (det ~ 0), inverse does not exist" >>,
                <<>>)
        ELSE ComputationResult("ok", "matrix_inverse",
                [matrix |-> matrix, inverse |-> Inverse(matrix),
                 determinant |-> ToString(Det(matrix)), invertible |-> TRUE],
                << "Matrix: " \o Dims(matrix),
                   "Determinant: " \o ToString(Det(matrix)) \o " != 0 (invertible)",
                   "Computing inverse using Gauss-Jordan elimination",
                   "Verification: A x A^-1 = I" >>,
                <<>>)

\* the plot elements and the closing steps of each shape; a shape that is
\* none of the three adds nothing and the function goes on
TransformShape(matrix, shape) ==
    CASE shape = "unit_square" ->
            [plots |-> << PlotElement("polygon", "Original"),
                          PlotElement("polygon", "Transformed") >>,
             steps |-> << "Unit square transformation shown" >>]
      [] shape = "unit_circle" ->
            [plots |-> << PlotElement("curve", "Original Circle"),
                          PlotElement("curve", "Transformed (Ellipse)") >>,
             steps |-> << "Unit circle transforms to ellipse" >>]
      [] shape = "grid" ->
            [plots |-> << PlotElement("segment", "e1"), PlotElement("segment", "e2"),
                          PlotElement("segment", "T(e1)"), PlotElement("segment", "T(e2)") >>,
             steps |-> << "Basis vector e1 -> " \o Pair(matrix[1][1], matrix[2][1]),
                          "Basis vector e2 -> " \o Pair(matrix[1][2], matrix[2][2]) >>]
      [] OTHER -> [plots |-> <<>>, steps |-> <<>>]

matrix_transform(args) ==
    LET matrix == args[1]
        shape  == args[2]
    IN  IF _validate_matrix(matrix, "Matrix") # ""
        THEN create_error_result("matrix_transform", _validate_matrix(matrix, "Matrix"))
        ELSE IF Rows(matrix) # 2 \/ Cols(matrix) # 2
        THEN create_error_result("matrix_transform", "Transformation matrix must be 2x2")
        ELSE ComputationResult("ok", "matrix_transform",
                [matrix |-> matrix, determinant |-> ToString(Det(matrix)), shape |-> shape],
                << "Transformation matrix:",
                   "  [" \o ToString(matrix[1][1]) \o ", " \o ToString(matrix[1][2]) \o "]",
                   "  [" \o ToString(matrix[2][1]) \o ", " \o ToString(matrix[2][2]) \o "]",
                   "Determinant: " \o ToString(Det(matrix)),
                   "Area scaling factor: |det| = " \o ToString(Abs(Det(matrix))) >>
                \o (IF Det(matrix) < 0
                    THEN << "Negative determinant: orientation is reversed" >> ELSE <<>>)
                \o TransformShape(matrix, shape).steps,
                TransformShape(matrix, shape).plots \o << PlotElement("point", "O") >>)

\* sympy's Matrix(rows): rows of different lengths raise, [] is the 0x0 matrix
IsRagged(m) == Cardinality({Len(m[i]) : i \in 1..Len(m)}) > 1
Shape(m) == IF m = <<>> THEN <<0, 0>> ELSE <<Rows(m), Cols(m)>>

\* [[str(el) for el in row] for row in result.tolist()]
StrEntries(m) == [i \in 1..Len(m) |-> [j \in 1..Len(m[i]) |-> ToString(m[i][j])]]

OperateBody(A, B, operation) ==
    LET done(name, symbol, result) ==
            ComputationResult("ok", "matrix_" \o operation,
                [result |-> StrEntries(result)],
                << "Matrix A: " \o ToString(A), "Matrix B: " \o ToString(B),
                   "Performing " \o name \o ":", symbol \o " = " \o ToString(result) >>,
                <<>>)
    IN  IF IsRagged(A) \/ IsRagged(B)
        THEN Raised("ValueError", "mismatched dimensions")
        ELSE
        CASE operation = "add" ->
                IF Shape(A) # Shape(B)
                THEN Raised("ValueError", "Matrices must have same dimensions for addition.")
                ELSE done("Addition", "A + B", MatAdd(A, B, 1))
          [] operation = "subtract" ->
                IF Shape(A) # Shape(B)
                THEN Raised("ValueError", "Matrices must have same dimensions for subtraction.")
                ELSE done("Subtraction", "A - B", MatAdd(A, B, -1))
          [] operation = "multiply" ->
                IF Shape(A)[2] # Shape(B)[1]
                THEN Raised("ValueError", "Column count of A (" \o ToString(Shape(A)[2])
                                \o ") must match row count of B (" \o ToString(Shape(B)[1]) \o ").")
                ELSE done("Multiplication", "A x B", MatMul(A, B))
          [] OTHER -> Raised("ValueError", "Unknown operation: " \o operation)

MatrixCalculator_operate(args) ==
    Guarded("matrix_operation", OperateBody(args[1], args[2], args[3]))

(***************************************************************************)
(* algebra.MatrixCalculator.compute_properties.  A cell is an int, a float *)
(* or a string; a string is the sequence of its characters, "sup2" being   *)
(* the character U+00B2 (a digit for str.isdigit, not for float()), and    *)
(* "x" a symbol.                                                           *)
(***************************************************************************)
\* a string cell, kept as its characters
PyText(chars) == [t |-> "str", s |-> "", v |-> 0, chars |-> chars]

DecimalDigits == {"0", "1", "2", "3", "4", "5", "6", "7", "8", "9"}

\* str.isdigit
isdigit(chars) ==
    Len(chars) > 0 /\ \A i \in 1..Len(chars) : chars[i] \in DecimalDigits \cup {"sup2"}

\* x.replace('.', '', 1)
replace_dot(chars) ==
    IF \E i \in 1..Len(chars) : chars[i] = "."
    THEN LET k == CHOOSE i \in 1..Len(chars) :
                    chars[i] = "." /\ \A j \in 1..(i - 1) : chars[j] # "."
         IN  [i \in 1..(Len(chars) - 1) |-> IF i < k THEN chars[i] ELSE chars[i + 1]]
    ELSE chars

\* the loop over the cells that sets is_numeric
is_numeric(matrix_data) ==
    \A r \in 1..Len(matrix_data) : \A j \in 1..Len(matrix_data[r]) :
        LET x == matrix_data[r][j]
        IN  x.t \in NumTypes \/ (x.t = "str" /\ isdigit(replace_dot(x.chars)))

\* the number a string of digits, sign and point stands for: float(x) and
\* sympify(x) agree on it; 0 for a string that is no number
NumberOf(chars) ==
    LET digit == [c \in DecimalDigits |->
                    CHOOSE n \in 0..9 : ToString(n) = c]
        Val[k \in 0..Len(chars)] ==
            IF k = 0 THEN 0
            ELSE IF chars[k] \in DecimalDigits THEN 10 * Val[k - 1] + digit[chars[k]]
            ELSE Val[k - 1]
    IN  IF Len(chars) > 0 /\ chars[1] = "-" THEN -Val[Len(chars)] ELSE Val[Len(chars)]

\* float(x) succeeds: decimal digits with at most one point and a leading sign
IsFloatText(chars) ==
    LET body == IF Len(chars) > 0 /\ chars[1] = "-" THEN Tail(chars) ELSE chars
    IN  /\ \E i \in 1..Len(body) : body[i] \in DecimalDigits
        /\ \A i \in 1..Len(body) : body[i] \in DecimalDigits \cup {"."}
        /\ Cardinality({i \in 1..Len(body) : body[i] = "."}) <= 1


\* a cell as the monomial c * x^k it stands for
Mono(x) ==
    IF x.t \in NumTypes THEN [c |-> x.v, k |-> 0]
    ELSE IF x.chars = <<"x">> THEN [c |-> 1, k |-> 1]
    ELSE [c |-> NumberOf(x.chars), k |-> 0]

\* a*d - b*c is not the zero polynomial
MinorNonZero(a, d, b, c) ==
    LET ad == [c |-> a.c * d.c, k |-> a.k + d.k]
        bc == [c |-> b.c * c.c, k |-> b.k + c.k]
    IN  ~ ((ad.c = 0 /\ bc.c = 0) \/ ad = bc)

\* rank of a matrix of at most two rows
Rank(M) ==
    IF \A i \in 1..Rows(M) : \A j \in 1..Cols(M) : M[i][j].c = 0 THEN 0
    ELSE IF Rows(M) = 2 /\ \E j, l \in 1..Cols(M) :
                                MinorNonZero(M[1][j], M[2][l], M[1][l], M[2][j])
    THEN 2
    ELSE 1

\* the eigenvalues of a 1x1 or 2x2 matrix of integers, each as often as its
\* algebraic multiplicity, as far as they are integers
EigenList(V) ==
    IF Rows(V) = 1 THEN << V[1][1] >>
    ELSE LET tr   == V[1][1] + V[2][2]
             d    == Det(V)
             bnd  == Abs(V[1][1]) + Abs(V[1][2]) + Abs(V[2][1]) + Abs(V[2][2])
             root == {l \in -bnd..bnd : l * l - tr * l + d = 0}
             low  == CHOOSE l \in root : \A o \in root : l <= o
             high == CHOOSE l \in root : \A o \in root : o <= l
         IN  IF root = {} THEN <<>> ELSE << low, high >>

\* collections.Counter(values): each distinct value with its number of
\* occurrences
Counter(values) ==
    [v \in {values[i] : i \in DOMAIN values} |->
        Cardinality({i \in DOMAIN values : values[i] = v})]

\* eigenvalues with their multiplicities
Eigenvalues(V) == Counter(EigenList(V))

\* round(e, 4) of a number counted in the unit: a whole number stays, and a
\* multiple of 1e-5 goes to the nearest multiple of 1e-4 (no halves occur)
round4(e, unit) ==
    IF unit = "e-5" THEN 10 * ((e + 5) \div 10) ELSE e

\* np.linalg.eig, each value rounded to four decimals, then Counter
NumericEigenvalues(V, unit) ==
    Counter([i \in DOMAIN EigenList(V) |-> round4(EigenList(V)[i], unit)])

\* the sign of abs(det) - 1e-10 for the determinant of an n x n matrix whose
\* entries are multiples of 1e-5
CompareDet(det, n, unit) ==
    IF unit # "e-5" THEN CompareTol(det, unit)
    ELSE IF n = 1 THEN (IF det = 0 THEN -1 ELSE 1)
    ELSE IF Abs(det) < 1 THEN -1
    ELSE IF Abs(det) = 1 THEN 0 ELSE 1

\* the numeric branch: np.array(matrix_data, dtype=float) and numpy.linalg
PropertiesNumeric(matrix_data, unit) ==
    IF matrix_data = <<>>
    THEN Raised("ValueError", "not enough values to unpack (expected 2, got 1)")
    ELSE IF Cardinality({Len(matrix_data[i]) : i \in 1..Len(matrix_data)}) > 1
    THEN Raised("ValueError", "setting an array element with a sequence.")
    ELSE IF \E i \in 1..Rows(matrix_data) : \E j \in 1..Cols(matrix_data) :
                matrix_data[i][j].t = "str" /\ ~IsFloatText(matrix_data[i][j].chars)
    THEN Raised("ValueError", "could not convert string to float")
    ELSE
    LET A == [i \in 1..Rows(matrix_data) |->
                [j \in 1..Cols(matrix_data) |-> Mono(matrix_data[i][j]).c]]
        square  == Rows(A) = Cols(A)
        \* abs(det_val) < 1e-10 becomes 0.0
        det_val == IF CompareDet(Det(A), Rows(A), unit) < 0 THEN 0 ELSE Det(A)
        inverts == square /\ CompareDet(det_val, Rows(A), unit) > 0
        \* eigenvalues are rounded to four decimals: a row of ticks rounds to 0
        R == IF unit # "tick" THEN A
             ELSE [i \in 1..Rows(A) |-> [j \in 1..Cols(A) |-> IF i = 1 THEN 0 ELSE A[i][j]]]
        rank_val == Rank([i \in 1..Rows(A) |-> [j \in 1..Cols(A) |-> [c |-> A[i][j], k |-> 0]]])
    IN  ComputationResult("ok", "matrix_properties",
            [shape |-> <<Rows(A), Cols(A)>>, is_square |-> square, rank |-> rank_val]
                @@ (IF square THEN [determinant |-> ToString(det_val),
                                    eigenvalues |-> NumericEigenvalues(R, unit)] ELSE <<>>)
                @@ (IF inverts THEN [inverse |-> Inverse(A)] ELSE <<>>),
            << "Input Matrix (Numeric Mode): A = " \o ToString(A) >>
                \o (IF square THEN << "Determinant: " \o ToString(det_val) >> ELSE <<>>)
                \o (IF inverts THEN << "Inverse exists." >>
                    ELSE IF square THEN << "Matrix is singular (det=0). No inverse." >>
                    ELSE <<>>)
                \o << "Rank: " \o ToString(rank_val) >>
                \o (IF square THEN << "Eigenvalues: " \o ToString(NumericEigenvalues(R, unit)) >> ELSE <<>>),
            <<>>)

\* the symbolic branch: sympy.Matrix(matrix_data), exact arithmetic
PropertiesSymbolic(matrix_data) ==
    IF Cardinality({Len(matrix_data[i]) : i \in 1..Len(matrix_data)}) > 1
    THEN Raised("ValueError", "mismatched dimensions")
    ELSE IF \E i \in 1..Rows(matrix_data) : \E j \in 1..Cols(matrix_data) :
                /\ matrix_data[i][j].t = "str"
                /\ matrix_data[i][j].chars # <<"x">>
                /\ ~IsFloatText(matrix_data[i][j].chars)
    THEN Raised("SympifyError", "could not parse a cell")
    ELSE
    LET M == [i \in 1..Rows(matrix_data) |->
                [j \in 1..Cols(matrix_data) |-> Mono(matrix_data[i][j])]]
        square   == Rows(M) = Cols(M)
        constant == \A i \in 1..Rows(M) : \A j \in 1..Cols(M) : M[i][j].k = 0
        V        == [i \in 1..Rows(M) |-> [j \in 1..Cols(M) |-> M[i][j].c]]
        \* det_val != 0
        nonzero  == IF Rows(M) = 1 THEN M[1][1].c # 0
                    ELSE MinorNonZero(M[1][1], M[2][2], M[1][2], M[2][1])
        det_text == IF constant THEN ToString(Det(V)) ELSE "det(" \o ToString(M) \o ")"
        inverts  == square /\ nonzero
    IN  ComputationResult("ok", "matrix_properties",
            [shape |-> <<Rows(M), Cols(M)>>, is_square |-> square, rank |-> Rank(M)]
                @@ (IF square THEN [determinant |-> det_text] ELSE <<>>)
                @@ (IF square /\ constant THEN [eigenvalues |-> Eigenvalues(V)] ELSE <<>>)
                @@ (IF inverts
                    THEN [inverse |-> IF constant THEN Inverse(V) ELSE "inv(" \o ToString(M) \o ")"]
                    ELSE <<>>),
            << "Input Matrix: A = " \o ToString(M) >>
                \o (IF square THEN << "Determinant: \\det(A) = " \o det_text >> ELSE <<>>)
                \o (IF inverts THEN << "Inverse exists." >>
                    ELSE IF square THEN << "Matrix is singular." >> ELSE <<>>)
                \o << "Rank: " \o ToString(Rank(M)) >>,
            <<>>)

MatrixCalculator_compute_properties(args) ==
    LET out == IF is_numeric(args[1]) THEN PropertiesNumeric(args[1], args[2])
               ELSE PropertiesSymbolic(args[1])
    IN  IF out.kind = "raise"
        THEN create_error_result("matrix_properties", "Matrix Error: " \o out.message)
        ELSE out

(***************************************************************************)
(* trigonometry.TrigonometryCore: the entry points that take a tag.        *)
(***************************************************************************)
GraphFunctions == {"sin", "cos", "tan", "cot", "sec", "csc", "asin", "acos", "atan"}

\* Samples of the graph.  Angles are counted in 32nds of pi and values in
\* hundredths; x runs over the eighths of pi from -2*pi to 2*pi.
Num(v) == [f |-> "fin", text |-> ToString(v), v |-> v]

\* 100 * tan, 100 * sec and 100 * sin of k*pi/32, k = 0..15
TanTable == <<0, 10, 20, 30, 41, 54, 67, 82, 100, 122, 150, 187, 241, 330, 503, 1015>>
SecTable == <<100, 100, 102, 105, 108, 113, 120, 129, 141, 158, 180, 212, 261, 344, 513, 1020>>
SinTable == <<0, 10, 20, 29, 38, 47, 56, 63, 71, 77, 83, 88, 92, 96, 98, 100>>

\* at a pole numpy gives an infinity or a value of the order of 1e16
np_tan(j) ==
    LET k == j % 32
    IN  IF k = 16 THEN PosInf
        ELSE IF k < 16 THEN Num(TanTable[k + 1]) ELSE Num(-TanTable[32 - k + 1])

np_cos_inverse(j) ==
    LET k == j % 64
    IN  IF k \in {16, 48} THEN PosInf
        ELSE IF k < 16 THEN Num(SecTable[k + 1])
        ELSE IF k <= 32 THEN Num(-SecTable[32 - k + 1])
        ELSE IF k < 48 THEN Num(-SecTable[k - 32 + 1])
        ELSE Num(SecTable[64 - k + 1])

np_sin(j) ==
    LET k == j % 64
        half(h) == IF h = 16 THEN 100 ELSE IF h < 16 THEN SinTable[h + 1] ELSE SinTable[32 - h + 1]
    IN  IF k <= 32 THEN Num(half(k)) ELSE Num(-half(k - 32))

\* A * func(B*x - C) + D at the angle j = B*x - C
GraphValue(func_type, A, j, D) ==
    LET scaled(y) == IF isfinite(y) THEN Num(A * y.v + 100 * D) ELSE y
    IN  CASE func_type = "sin" -> scaled(np_sin(j))
          [] func_type = "cos" -> scaled(np_sin(j + 16))
          [] func_type = "tan" -> scaled(np_tan(j))
          \* 1/denom, and nan where abs(denom) < 1e-9
          [] func_type = "cot" ->
                IF np_tan(j) = Num(0) THEN NaN
                ELSE IF ~isfinite(np_tan(j)) THEN scaled(Num(0))
                ELSE scaled(np_tan(16 - j))
          [] func_type = "sec" -> scaled(np_cos_inverse(j))
          [] func_type = "csc" -> scaled(np_cos_inverse(j - 16))

\* the inverse functions, at B*x - C = -1, 0, 1 (asin, acos) or -5, 0, 5 (atan)
InverseValues(func_type, A, D) ==
    LET scaled(v) == Num(A * v + 100 * D)
    IN  CASE func_type = "asin" -> << scaled(-157), scaled(0), scaled(157) >>
          [] func_type = "acos" -> << scaled(314), scaled(157), scaled(0) >>
          [] func_type = "atan" -> << scaled(-137), scaled(0), scaled(137) >>

\* the jump above which two adjacent samples are masked
threshold == 10

\* list(zip(x[valid_mask].tolist(), y[valid_mask].tolist())) for
\* valid_mask = ~np.isnan(y)
RECURSIVE DropNaN(_, _)
DropNaN(x, y) ==
    IF x = <<>> THEN <<>>
    ELSE (IF isnan(Head(y)) THEN <<>> ELSE << <<Head(x), Head(y)>> >>)
         \o DropNaN(Tail(x), Tail(y))

\* stage 3: values above 20 in magnitude become nan, then both samples of
\* every jump above the threshold (a difference with a nan is nan, which is
\* not above the threshold)
MaskAsymptotes(y) ==
    LET y1 == [i \in 1..Len(y) |->
                  IF isnan(y[i]) THEN NaN
                  ELSE IF ~isfinite(y[i]) \/ Abs(y[i].v) > 20 * 100 THEN NaN ELSE y[i]]
        jump(i) == /\ i >= 1 /\ i < Len(y)
                   /\ isfinite(y1[i]) /\ isfinite(y1[i + 1])
                   /\ Abs(y1[i + 1].v - y1[i].v) > threshold * 100
    IN  [i \in 1..Len(y) |-> IF jump(i) \/ jump(i - 1) THEN NaN ELSE y1[i]]

\* the x of the samples
GraphX == [i \in 1..33 |-> 4 * (i - 17)]

GraphPoints(func_type, params) ==
    IF func_type \in {"asin", "acos", "atan"}
    THEN DropNaN(<< Num(1), Num(2), Num(3) >>, InverseValues(func_type, params.A, params.D))
    ELSE LET y == [i \in 1..Len(GraphX) |->
                      GraphValue(func_type, params.A, params.B * GraphX[i] - params.C, params.D)]
             x == [i \in 1..Len(GraphX) |-> Num(GraphX[i])]
         IN  DropNaN(x, IF func_type \in {"tan", "cot", "sec", "csc"}
                        THEN MaskAsymptotes(y) ELSE y)

TrigonometryCore_generate_graph(args) ==
    LET func_type == args[1]
        params    == args[2]
        inner == ToString(params.B) \o "x"
                 \o (IF params.C # 0 THEN " - " \o ToString(params.C) ELSE "")
    IN  IF func_type \notin GraphFunctions
        THEN create_error_result("graph", "Unknown function " \o func_type)
        ELSE ComputationResult("ok", "graph",
                [func_latex |-> "y = " \o ToString(params.A) \o " " \o func_type \o "("
                                \o inner \o ") + " \o ToString(params.D)],
                <<>>,
                << PlotCurve("scatter", func_type, GraphPoints(func_type, params)) >>)

\* angle expressions of the workload: pi/6 and pi/3 parse, "pi/" does not
AngleParses(text) == text # "pi/"

\* latex(expand_trig(expr)) for the angles as given
Expanded(op_type, A, B) ==
    CASE op_type = "sin_add"  -> "sin(" \o A \o ")cos(" \o B \o ") + cos(" \o A \o ")sin(" \o B \o ")"
      [] op_type = "sin_diff" -> "sin(" \o A \o ")cos(" \o B \o ") - cos(" \o A \o ")sin(" \o B \o ")"
      [] op_type = "cos_add"  -> "cos(" \o A \o ")cos(" \o B \o ") - sin(" \o A \o ")sin(" \o B \o ")"
      [] op_type = "cos_diff" -> "cos(" \o A \o ")cos(" \o B \o ") + sin(" \o A \o ")sin(" \o B \o ")"
      [] op_type = "tan_add"  -> "(tan(" \o A \o ") + tan(" \o B \o "))/(1 - tan(" \o A
                                 \o ")tan(" \o B \o "))"

CompoundOps == {"sin_add", "sin_diff", "cos_add", "cos_diff", "tan_add"}

TrigonometryCore_compound_angle(args) ==
    LET op_type == args[1]
        A_val   == args[2]
        B_val   == args[3]
    IN  IF ~AngleParses(A_val) \/ ~AngleParses(B_val)
        THEN create_error_result("compound_angle", "Invalid expression: unexpected EOF")
        ELSE IF op_type \notin CompoundOps
        THEN create_error_result("compound_angle", "Unknown operation")
        ELSE ComputationResult("ok", "compound_angle", <<>>,
                (IF op_type = "sin_add"
                 THEN << "Expand sin(" \o A_val \o " + " \o B_val \o ")" >> ELSE <<>>)
                \o << "Result: " \o Expanded(op_type, A_val, B_val) >>,
                <<>>)

\* math.tan(math.radians(angle)) for the angles of the workload
Tan(angle_deg) == IF angle_deg = 45 THEN 1 ELSE 0

HeightsBody(param_type, d, angle_deg, h) ==
    CASE param_type = "find_height" ->
            ComputationResult("ok", "heights_distances",
                [result |-> ToString(d * Tan(angle_deg) + h)],
                << "Given: Distance d = " \o ToString(d) \o ", Angle = " \o ToString(angle_deg) >>
                \o (IF h > 0 THEN << "Observer Height = " \o ToString(h) >> ELSE <<>>)
                \o << "Formula: Height = d * tan(angle)",
                      "Height = " \o ToString(d) \o " * tan(" \o ToString(angle_deg) \o ") = "
                          \o ToString(d * Tan(angle_deg)) >>
                \o (IF h > 0
                    THEN << "Total Height = " \o ToString(d * Tan(angle_deg)) \o " + "
                                \o ToString(h) \o " = " \o ToString(d * Tan(angle_deg) + h) >>
                    ELSE <<>>),
                << PlotElement("polygon", "Triangle"),
                   PlotElement("point", "d=" \o ToString(d)),
                   PlotElement("point", "h=" \o ToString(d * Tan(angle_deg))) >>)
      [] param_type = "find_dist" ->
            IF Tan(angle_deg) = 0 THEN Raised("ZeroDivisionError", "float division by zero")
            ELSE ComputationResult("ok", "heights_distances",
                    [result |-> ToString(d \div Tan(angle_deg))],
                    << "Given: Height = " \o ToString(d) \o ", Angle = " \o ToString(angle_deg),
                       "Formula: Distance = Height / tan(angle)",
                       "Distance = " \o ToString(d) \o " / " \o ToString(Tan(angle_deg)) \o " = "
                           \o ToString(d \div Tan(angle_deg)) >>,
                    << PlotElement("polygon", "Triangle") >>)
      [] OTHER -> create_error_result("heights_distances", "Unknown type")

TrigonometryCore_heights_distances(args) ==
    Guarded("heights_distances", HeightsBody(args[1], args[2], args[3], args[4]))

(***************************************************************************)
(* A call through an lru_cache wrapper: a hit returns the stored value and *)
(* touches the entry; a miss runs the function and stores what it returns. *)
(* An exception leaves the wrapper and nothing is stored.                  *)
(***************************************************************************)
IsRaise(out) == out.kind = "raise"

\* i is the position Find gave for the key
CachedValue(c, i, out) == IF i > 0 THEN c[i].val ELSE out

CachedEntries(c, i, args, out, maxsize) ==
    IF i > 0 THEN Touch(c, i)
    ELSE IF IsRaise(out) THEN c
    ELSE Insert(c, args, out, maxsize)

\* the keys in use after a call with args whose body gives out, by recency:
\* the called key becomes the most recent one, and of more than maxsize keys
\* only the most recent maxsize are kept.  A call that raises uses no key.
Used(r, args, out, maxsize) ==
    LET at == {j \in 1..Len(r) : KeyEq(r[j], args)}
    IN  IF at # {}
        THEN LET j == CHOOSE k \in at : TRUE
             IN  [k \in 1..Len(r) |-> IF k < j THEN r[k] ELSE IF k < Len(r) THEN r[k + 1] ELSE r[j]]
        ELSE IF IsRaise(out) THEN r
        ELSE IF Len(r) >= maxsize THEN Append(Tail(r), args)
        ELSE Append(r, args)

CachedFns ==
    {"analyze_function", "compute_derivative", "compute_integral", "find_critical_points",
     "compute_taylor", "compute_limit",
     "_solve_quadratic", "_analyze_polynomial_cached", "_calculate_complex",
     "_analyze_conic_cached"}

\* the memoized worker behind a public method; any other function is its own target
Target(fn) ==
    CASE fn = "QuadraticSolver.solve"             -> "_solve_quadratic"
      [] fn = "PolynomialSolver.analyze"          -> "_analyze_polynomial_cached"
      [] fn = "ComplexNumberCalculator.calculate" -> "_calculate_complex"
      [] fn = "ConicAnalyzer.analyze"             -> "_analyze_conic_cached"
      [] OTHER -> fn

\* what the public method makes of its worker's outcome
Outer(fn, out) ==
    CASE fn = "QuadraticSolver.solve"             -> QuadraticSolver_solve(out)
      [] fn = "PolynomialSolver.analyze"          -> PolynomialSolver_analyze(out)
      [] fn = "ComplexNumberCalculator.calculate" -> ComplexNumberCalculator_calculate(out)
      [] fn = "ConicAnalyzer.analyze"             -> ConicAnalyzer_analyze(out)
      [] OTHER -> out

\* the body of function f run on args
Run(f, args) ==
    CASE f = "analyze_function"            -> analyze_function(args)
      [] f = "compute_derivative"          -> compute_derivative(args)
      [] f = "compute_integral"            -> compute_integral(args)
      [] f = "find_critical_points"        -> find_critical_points(args)
      [] f = "compute_taylor"              -> compute_taylor(args)
      [] f = "compute_limit"               -> compute_limit(args)
      [] f = "compute_indefinite_integral" -> compute_indefinite_integral(args)
      [] f = "solve_ode"                   -> solve_ode(args)
      [] f = "compute_partial_derivative"  -> compute_partial_derivative(args)
      [] f = "_solve_quadratic"            -> _solve_quadratic(args)
      [] f = "_analyze_polynomial_cached"  -> _analyze_polynomial_cached(args)
      [] f = "_calculate_complex"          -> _calculate_complex(args)
      [] f = "_analyze_conic_cached"       -> _analyze_conic_cached(args)
      [] f = "MatrixCalculator.operate"    -> MatrixCalculator_operate(args)
      [] f = "MatrixCalculator.compute_properties" -> MatrixCalculator_compute_properties(args)
      [] f = "circle_circle_intersection"  -> circle_circle_intersection(args)
      [] f = "line_circle_intersection"    -> line_circle_intersection(args)
      [] f = "tangent_from_point"          -> tangent_from_point(args)
      [] f = "line_intersection"           -> line_intersection(args)
      [] f = "QuadrilateralProperties.analyze" -> QuadrilateralProperties_analyze(args)
      [] f = "matrix_add"                  -> matrix_add(args)
      [] f = "matrix_inverse"              -> matrix_inverse(args)
      [] f = "matrix_transform"            -> matrix_transform(args)
      [] f = "VectorCalculator.analyze"    -> VectorCalculator_analyze(args)
      [] f = "Mensuration.solidity"        -> Mensuration_solidity(args)
      [] f = "GeometricTransformer.transform_2d" -> GeometricTransformer_transform_2d(args)
      [] f = "Conicoid3D.analyze"          -> Conicoid3D_analyze(args)
      [] f = "TrigonometryCore.generate_graph"    -> TrigonometryCore_generate_graph(args)
      [] f = "TrigonometryCore.compound_angle"    -> TrigonometryCore_compound_angle(args)
      [] f = "TrigonometryCore.heights_distances" -> TrigonometryCore_heights_distances(args)

\* one call of the engine's function fn, from the caller's side
Call(fn, args) ==
    LET f   == Target(fn)
        c   == cache[f]
        i   == Find(c, args)
        out == Run(f, args)
        got == IF f \in CachedFns THEN Outer(fn, CachedValue(c, i, out)) ELSE out
    IN  /\ call' = [fn |-> fn, args |-> args]
        /\ ret' = got
        /\ cache' = IF f \in CachedFns
                    THEN [cache EXCEPT ![f] = CachedEntries(c, i, args, out, MATH_CACHE_SIZE)]
                    ELSE cache
        /\ first' = IF args \in DOMAIN first /\ first[args] = NoResult
                    THEN [first EXCEPT ![args] = got]
                    ELSE first
        /\ runs' = IF <<f, args>> \in DOMAIN runs /\ i = 0
                   THEN [runs EXCEPT ![<<f, args>>] = @ + 1]
                   ELSE runs
        /\ recent' = IF f \in CachedFns
                     THEN [recent EXCEPT ![f] = Used(@, args, out, MATH_CACHE_SIZE)]
                     ELSE recent

(***************************************************************************)
(* Workload of the cache specification: calls of compute_derivative on one *)
(* point written as an int and as a float, and on a run of distinct filler *)
(* points that fills the cache and forces evictions.                       *)
(***************************************************************************)
MaxExtra == 2

HotArgs == { <<PyStr("x**2"), PyInt(1)>>, <<PyStr("x**2"), PyFloat(1)>> }
\* the points 2.0, 3.0, ...
FillerArgs(n) == <<PyStr("x**2"), PyFloat(n + 2)>>

HotCall ==
    /\ \E args \in HotArgs : Call("compute_derivative", args)
    /\ UNCHANGED <<fresh, thr>>

FillerCall ==
    /\ fresh < MATH_CACHE_SIZE + MaxExtra
    /\ Call("compute_derivative", FillerArgs(fresh))
    /\ fresh' = fresh + 1
    /\ UNCHANGED thr

InitLRU ==
    /\ cache = [f \in CachedFns |-> <<>>]
    /\ fresh = 0
    /\ call = NoCall
    /\ ret = NoResult
    /\ first = [a \in HotArgs |-> NoResult]
    /\ runs = <<>>
    /\ thr = <<>>
    /\ recent = [f \in CachedFns |-> <<>>]

NextLRU == HotCall \/ FillerCall

SpecLRU == InitLRU /\ [][NextLRU]_vars

(***************************************************************************)
(* Workload of the entry-point specification: one call of one entry point  *)
(* on a fresh engine, over well-typed arguments that cover every tag each  *)
(* entry point implements, one it does not, and the inputs on which        *)
(* parsing or the computation fails.                                       *)
(***************************************************************************)
Coefficient == 2
Coefficients == {PyFloat(n) : n \in -Coefficient..Coefficient}

AnalyzeCalls == {<<PyStr(e), PyFloat(-5), PyFloat(5), PyInt(500)>> : e \in Expressions}
DerivativeCalls ==
    {<<PyStr(e), p>> : e \in {"x**2", "x**"}, p \in {PyInt(1), PyFloat(1), PyFloat(0)}}
    \cup {<<PyStr("1/x"), PyFloat(0)>>}
IntegralCalls ==
    { <<PyStr("x**2"), PyFloat(0), PyFloat(3)>>, <<PyStr("x**"), PyFloat(0), PyFloat(3)>>,
      <<PyStr("x**x"), PyFloat(1), PyFloat(2)>>, <<PyStr("log(x)"), PyFloat(0), PyFloat(1)>>,
      <<PyStr("log(x)"), PyFloat(1), PyFloat(2)>> }
CriticalExpressions == {"x**2", "x**3", "x**3 - 3*x", "x**3 + 3*x", "x**4 - 2*x**2", "1", "x**"}
CriticalCalls ==
    {<<PyStr(e), PyNone>> : e \in CriticalExpressions}
        \cup {<<PyStr(e), PyFloat(lo), PyFloat(hi)>> :
                    e \in CriticalExpressions, lo \in {-2, 0, 1}, hi \in {0, 1, 2}}
TaylorCalls == {<<PyStr(e), PyFloat(0), PyInt(5)>> : e \in {"x**2", "x**"}}
LimitCalls ==
    {<<PyStr(e), p, PyStr("+/-")>> : e \in {"x**2", "x**"}, p \in {PyInt(1), PyFloat(1)}}
    \cup {<<PyStr("1/x"), PyFloat(0), PyStr("+/-")>>}
IndefiniteCalls == {<<PyStr(e)>> : e \in Expressions}
OdeCalls == {<<PyStr(e)>> : e \in {"y' + y = x", "y' +* y"}}
PartialCalls == {<<PyStr(e), PyStr(v)>> : e \in {"x**2", "x**"}, v \in {"x", "y", "w"}}
QuadraticCalls == {<<a, b, c>> : a \in Coefficients, b \in Coefficients, c \in Coefficients}
PolynomialCalls == {<<PyStr(e)>> : e \in {"x**2 - 1", "x**"}}
ComplexCalls == {<<PyStr(e)>> : e \in {"3 + 4*I", "x + 1", "x**"}}

Matrices ==
    { << <<1, 0>>, <<0, 1>> >>, << <<1, 2>>, <<2, 4>> >>, << <<1, 2, 3>>, <<4, 5, 6>> >>,
      << <<1, 2>>, <<3, 4>> >>, << <<1, 1>>, <<1, 1>> >> }
\* also the empty matrix and one with rows of different lengths
LooseMatrices == Matrices \cup { <<>>, << <<1, 2>>, <<3>> >> }
OperateCalls ==
    {<<A, B, op>> : A \in Matrices, B \in Matrices, op \in {"add", "subtract", "multiply", "divide"}}
        \cup {<<A, B, "add">> : A \in LooseMatrices, B \in LooseMatrices}
MatrixAddCalls == {<<A, B>> : A \in LooseMatrices, B \in LooseMatrices}
TinyMatrices ==
    {<< <<t>> >> : t \in -(TolTicks + 1)..(TolTicks + 1)}
        \cup {<< <<t, 0>>, <<1, 1>> >> : t \in -(TolTicks + 1)..(TolTicks + 1)}
\* multiples of 1e-5 around 0 and around 0.001, none halfway between two
\* multiples of 1e-4
CloseValues == {-4, 4, 6, 14, 96, 104, 106}
Cells == { PyInt(0), PyInt(2), PyFloat(1), PyText(<<"2">>), PyText(<<"2", ".">>),
           PyText(<<"-", "2">>), PyText(<<"x">>), PyText(<<"sup2">>), PyText(<<>>) }
PropertiesCalls ==
    {<< << <<x>> >>, "1" >> : x \in Cells}
        \cup {<< << <<x, PyInt(0)>>, <<PyInt(0), y>> >>, "1" >> : x, y \in Cells}
        \cup {<< << <<PyInt(1), PyInt(2), PyInt(3)>>, <<PyInt(4), PyInt(5), PyInt(6)>> >>, "1" >>,
               << << <<PyInt(1)>>, <<PyInt(1), PyInt(2)>> >>, "1" >>,
               << <<>>, "1" >>}
        \cup {<< [i \in 1..Len(A) |-> [j \in 1..Len(A[i]) |-> PyFloat(A[i][j])]], "tick" >> :
                    A \in TinyMatrices}
        \cup {<< << <<PyFloat(x), PyFloat(0)>>, <<PyFloat(0), PyFloat(y)>> >>, "e-5" >> :
                    x, y \in CloseValues}
Circle(x, y, r) == [x |-> x, y |-> y, r |-> r]
CircleCircleCalls ==
    {<<Circle(0, 0, r1), Circle(d, 0, r2), "tick">> :
        r1 \in {6, 10}, r2 \in {6}, d \in 0..(16 + TolTicks + 1)}
        \cup {<<Circle(0, 0, 5), c2, "1">> :
                c2 \in {Circle(5, 0, 3), Circle(3, 4, 3), Circle(8, 0, 3), Circle(0, 2, 3),
                        Circle(0, 0, 5), Circle(0, 0, 3), Circle(0, 9, 3)}}
Line(a, b, c) == [a |-> a, b |-> b, c |-> c]
LineCircleCalls ==
    {<<Line(1, 0, -t), Circle(0, 0, 10), "tick">> : t \in 0..(10 + TolTicks + 1)}
        \cup {<<Line(3, 4, -t), Circle(0, 0, 10), "tick">> :
                t \in {0, 50 - 5 * TolTicks - 1, 50 - 5 * TolTicks, 50 - 5 * TolTicks + 1, 50,
                       50 + 5 * TolTicks - 1, 50 + 5 * TolTicks, 50 + 5 * TolTicks + 1}}
        \cup {<<Line(ab[1], ab[2], c), Circle(1, 1, r), "1">> :
                ab \in {<<0, 0>>, <<1, 0>>, <<0, 1>>, <<3, 4>>},
                c \in {-12, -3, -1, 0}, r \in {0, 1, 2}}
Lines ==
    { Line(1, 1, 1), Line(2, 2, 2), Line(2, 2, 1), Line(1, 1, 2), Line(-1, -1, -1),
      Line(1, -1, 0), Line(1, 1, -2), Line(0, 1, 1), Line(1, 0, 0), Line(0, 0, 1) }
LineIntersectionCalls == {<<l1, l2>> : l1 \in Lines, l2 \in Lines}
TangentCalls ==
    {<<[x |-> t, y |-> 0], Circle(0, 0, 10), "tick">> : t \in 0..(10 + TolTicks + 1)}
        \cup {<<[x |-> t, y |-> 0], Circle(0, 0, 1), "tick">> : t \in 0..(1 + TolTicks + 1)}
        \cup {<<[x |-> p[1], y |-> p[2]], Circle(0, 0, 5), "1">> :
                p \in {<<0, 0>>, <<3, 0>>, <<3, 4>>, <<5, 0>>, <<0, 5>>, <<10, 0>>,
                       <<5, 12>>, <<0, 13>>, <<6, 8>>}}
Pt(x, y) == [x |-> x, y |-> y]
QuadrilateralCalls ==
    {<<Pt(0, 0), p2, p3, p4, "1">> :
        p2 \in {Pt(4, 0), Pt(3, 0), Pt(2, 1)},
        p3 \in {Pt(4, 3), Pt(3, 3), Pt(4, 0), Pt(5, 3), Pt(4, 2)},
        p4 \in {Pt(0, 3), Pt(2, -1), Pt(1, 3), Pt(0, 2)}}
        \cup {<<Pt(0, 0), Pt(10 + t, 0), Pt(10 + t, 10 + u), Pt(0, 10), "tick">> :
                t \in 0..(TolTicks + 1), u \in 0..(TolTicks + 1)}
        \cup {<<Pt(0, 0), Pt(4, 3), Pt(8, 0), Pt(4, -3), "tick">>,
              <<Pt(0, 0), Pt(20, 0), Pt(20, 10), Pt(0, 10), "tick">>,
              <<Pt(0, 0), Pt(20, 0), Pt(30, 10), Pt(10, 10), "tick">>}
ConicCalls ==
    {<<PyFloat(cA), PyFloat(cB), PyFloat(cC), PyFloat(cD), PyFloat(cE), PyFloat(cF)>> :
        cA \in -1..1, cB \in -2..2, cC \in -1..1, cD \in 0..1, cE \in 0..1, cF \in -1..1}
InverseCalls ==
    {<<A, "1">> : A \in Matrices \cup {<<>>}} \cup {<<A, "tick">> : A \in TinyMatrices}
MatrixTransformCalls ==
    {<<A, shape>> : A \in Matrices, shape \in {"unit_square", "unit_circle", "grid", "blob"}}

VectorCalls ==
    {<<v1, v2, op>> : v1 \in {<<1, 2>>, <<1, 2, 2>>},
                      v2 \in {<<>>, <<3, 4>>, <<2, 0, 1>>},
                      op \in {"properties", "dot", "cross", "angle", "projection", "foo"}}
SolidityCalls ==
    {<<shape, [side |-> 2, l |-> 1, b |-> 2, h |-> 3, r |-> 1]>> :
        shape \in {"cube", "cuboid", "cylinder", "cone", "sphere", "hemisphere"}}
Transform2dCalls ==
    {<<[x |-> 1, y |-> 2], op,
       [cx |-> 0, cy |-> 1, angle |-> 90, a |-> a, b |-> 0, c |-> -3,
        dx |-> 2, dy |-> -1, factor |-> 3]>> :
        op \in {"rotate", "reflect", "translate", "scale", "shear"}, a \in {0, 1}}
ConicoidCalls ==
    {<<shape, [cx |-> 0, cy |-> 0, cz |-> 1, r |-> 2, a |-> 1, b |-> 2, c |-> 3, h |-> h]>> :
        shape \in {"sphere", "ellipsoid", "cone", "cylinder", "hyperboloid1", "hyperboloid2",
                   "paraboloid", "torus"},
        h \in {0, 1}}
GraphCalls ==
    {<<f, [A |-> 1, B |-> 2, C |-> C, D |-> 0]>> : f \in GraphFunctions \cup {"sinh"}, C \in {0, 1}}
CompoundCalls ==
    {<<op, A, "pi/3">> : op \in CompoundOps \cup {"tan_diff"}, A \in {"pi/6", "pi/"}}
HeightsCalls ==
    {<<type, 10, angle, h>> : type \in {"find_height", "find_dist", "find_angle"},
                              angle \in {0, 45}, h \in {0, 2}}

\* the first call made to a fresh engine
Invoke(fn, calls) ==
    /\ call.fn = "none"
    /\ \E args \in calls : Call(fn, args)
    /\ UNCHANGED <<fresh, thr>>

InitEntry ==
    /\ cache = [f \in CachedFns |-> <<>>]
    /\ fresh = 0
    /\ call = NoCall
    /\ ret = NoResult
    /\ first = <<>>
    /\ runs = <<>>
    /\ thr = <<>>
    /\ recent = [f \in CachedFns |-> <<>>]

NextEntry ==
    \/ Invoke("analyze_function", AnalyzeCalls)
    \/ Invoke("compute_derivative", DerivativeCalls)
    \/ Invoke("compute_integral", IntegralCalls)
    \/ Invoke("find_critical_points", CriticalCalls)
    \/ Invoke("compute_taylor", TaylorCalls)
    \/ Invoke("compute_limit", LimitCalls)
    \/ Invoke("compute_indefinite_integral", IndefiniteCalls)
    \/ Invoke("solve_ode", OdeCalls)
    \/ Invoke("compute_partial_derivative", PartialCalls)
    \/ Invoke("QuadraticSolver.solve", QuadraticCalls)
    \/ Invoke("PolynomialSolver.analyze", PolynomialCalls)
    \/ Invoke("ComplexNumberCalculator.calculate", ComplexCalls)
    \/ Invoke("MatrixCalculator.operate", OperateCalls)
    \/ Invoke("matrix_add", MatrixAddCalls)
    \/ Invoke("matrix_inverse", InverseCalls)
    \/ Invoke("tangent_from_point", TangentCalls)
    \/ Invoke("line_intersection", LineIntersectionCalls)
    \/ Invoke("QuadrilateralProperties.analyze", QuadrilateralCalls)
    \/ Invoke("line_circle_intersection", LineCircleCalls)
    \/ Invoke("circle_circle_intersection", CircleCircleCalls)
    \/ Invoke("ConicAnalyzer.analyze", ConicCalls)
    \/ Invoke("MatrixCalculator.compute_properties", PropertiesCalls)
    \/ Invoke("matrix_transform", MatrixTransformCalls)
    \/ Invoke("VectorCalculator.analyze", VectorCalls)
    \/ Invoke("Mensuration.solidity", SolidityCalls)
    \/ Invoke("GeometricTransformer.transform_2d", Transform2dCalls)
    \/ Invoke("Conicoid3D.analyze", ConicoidCalls)
    \/ Invoke("TrigonometryCore.generate_graph", GraphCalls)
    \/ Invoke("TrigonometryCore.compound_angle", CompoundCalls)
    \/ Invoke("TrigonometryCore.heights_distances", HeightsCalls)

SpecEntry == InitEntry /\ [][NextEntry]_vars

(***************************************************************************)
(* FunctionAnalyzer.critical_points, one iteration of its for loop at a    *)
(* time.  thr is empty, or holds the loop's state: the number k of the     *)
(* elements taken from the solution set so far and the points appended.    *)
(* For sin(x) the zeros of f' = cos(x) are the union of two image sets     *)
(* over the integers, pi/2 + 2*n*pi and 3*pi/2 + 2*n*pi; x is then counted *)
(* in units of pi/2.                                                       *)
(***************************************************************************)
MaxIter == 6

Periodic(expression) == expression = "sin(x)"

\* the integers in the order sympy iterates them: 0, 1, -1, 2, -2, ...
IntegersAt(i) == IF i % 2 = 1 THEN (i + 1) \div 2 ELSE -(i \div 2)

\* the k-th element (from 0) of the union, which takes from its two image
\* sets in turn
PeriodicZero(k) == (IF k % 2 = 0 THEN 1 ELSE 3) + 4 * IntegersAt(k \div 2)

\* hasattr(critical_x, "__iter__")
Iterable(expression) ==
    IF Periodic(expression) THEN TRUE
    ELSE solveset(PolyDiff(Coeffs(expression))).iterable

\* whether the iterator has an element after the first k
HasNext(expression, k) ==
    IF Periodic(expression) THEN TRUE
    ELSE k < Len(solveset(PolyDiff(Coeffs(expression))).zeros)

NextZero(expression, k) ==
    IF Periodic(expression) THEN PeriodicZero(k)
    ELSE solveset(PolyDiff(Coeffs(expression))).zeros[k + 1]

\* if domain and (cx_val < domain[0] or cx_val > domain[1]): continue
InDomain(domain, cx) == ~ (Len(domain) = 2 /\ (cx < domain[1].v \/ cx > domain[2].v))

\* the dict appended for the zero cx
CriticalPoint(expression, cx) ==
    LET second == IF Periodic(expression) THEN (IF cx % 4 = 1 THEN -1 ELSE 1)
                  ELSE PolyEval(PolyDiff(PolyDiff(Coeffs(expression))), cx)
    IN  [x |-> cx,
         y |-> IF Periodic(expression) THEN -second ELSE PolyEval(Coeffs(expression), cx),
         type |-> IF second > 0 THEN "local minimum"
                  ELSE IF second < 0 THEN "local maximum" ELSE "inflection point",
         second_derivative |-> second]

\* the result built after the loop
CriticalResult(expression, points) ==
    ComputationResult("ok", "critical_points", [points |-> points],
        << "Given: f(x) = " \o expression.s,
           "f'(x) = " \o diff1(expression.s),
           "Setting f'(x) = 0:",
           "Found " \o ToString(Len(points)) \o " critical point(s)" >>
        \o [i \in 1..Len(points) |->
                "  * x = " \o ToString(points[i].x) \o ": " \o points[i].type
                    \o " at y = " \o ToString(points[i].y)],
        IF points # <<>> THEN << PlotElement("points", "critical points") >> ELSE <<>>)

LoopCalls ==
    CriticalCalls
        \cup {<<PyStr("sin(x)"), PyNone>>}
        \cup {<<PyStr("sin(x)"), PyFloat(lo), PyFloat(hi)>> : lo \in {-4, 0}, hi \in {0, 4}}

\* the call, up to the for statement
LoopStart ==
    /\ call.fn = "none"
    /\ \E args \in LoopCalls :
        /\ call' = [fn |-> "FunctionAnalyzer.critical_points", args |-> args]
        /\ IF Parses(args[1].s) /\ Iterable(args[1].s)
           THEN /\ thr' = << [k |-> 0, odd |-> FALSE, points |-> <<>>] >>
                /\ ret' = ret
           ELSE /\ thr' = thr
                /\ ret' = critical_points(args[1], Tail(args))
    /\ UNCHANGED <<cache, fresh, first, runs, recent>>

\* one iteration.  Past the MaxIter-th element the count k stays (only
\* whether it is odd is kept): every later zero is outside the domains of
\* the workload, and without a domain every later zero is appended to a list
\* of which the first MaxIter entries are kept.
LoopNext ==
    /\ Len(thr) = 1
    /\ HasNext(call.args[1].s, thr[1].k)
    /\ LET cx == NextZero(call.args[1].s, thr[1].k)
           keep == thr[1].k < MaxIter /\ InDomain(Tail(call.args), cx)
       IN  thr' = << [k |-> IF thr[1].k < MaxIter THEN thr[1].k + 1 ELSE MaxIter,
                      odd |-> ~thr[1].odd,
                      points |-> IF keep
                                 THEN Append(thr[1].points, CriticalPoint(call.args[1].s, cx))
                                 ELSE thr[1].points] >>
    /\ UNCHANGED <<cache, fresh, call, ret, first, runs, recent>>

\* the iterator is exhausted: the result is built and returned
LoopEnd ==
    /\ Len(thr) = 1
    /\ ~HasNext(call.args[1].s, thr[1].k)
    /\ ret' = CriticalResult(call.args[1], thr[1].points)
    /\ thr' = <<>>
    /\ UNCHANGED <<cache, fresh, call, first, runs, recent>>

InitLoop == InitEntry

NextLoop == LoopStart \/ LoopNext \/ LoopEnd

\* the interpreter keeps running the call
SpecLoop == InitLoop /\ [][NextLoop]_vars /\ WF_vars(NextLoop)

(***************************************************************************)
(* Properties of a single call (SpecEntry).                                *)
(***************************************************************************)
Called == call.fn # "none"

C2_ErrorEnvelopeShape ==
    (Called /\ ret.kind = "result" /\ ret.status = "error") =>
        /\ DOMAIN ret.payload = {"error"}
        /\ ret.steps = << "Error: " \o ret.payload.error >>
        /\ ret.plot_elements = <<>>

\* C2's case: an entry point rejected an unknown shape with an error result
C2_Witness ==
    /\ call.fn = "Mensuration.solidity"
    /\ call.args[1] = "hemisphere"
    /\ ret.status = "error"
    /\ ret.payload = [error |-> "Unknown shape: hemisphere"]

(***************************************************************************)
(* The calls on which the computation has no answer, by kind.              *)
(***************************************************************************)
ExpressionFns ==
    {"analyze_function", "compute_derivative", "compute_integral", "find_critical_points",
     "compute_taylor", "compute_limit", "compute_indefinite_integral",
     "compute_partial_derivative", "PolynomialSolver.analyze",
     "ComplexNumberCalculator.calculate"}

ParseFailureCall ==
    \/ call.fn \in ExpressionFns /\ ~Parses(call.args[1].s)
    \/ call.fn = "solve_ode" /\ ~OdeParses(call.args[1].s)
    \/ call.fn = "TrigonometryCore.compound_angle" /\ ~AngleParses(call.args[2])

DivisionByZeroCall ==
    \/ call.fn = "QuadraticSolver.solve" /\ call.args[1].v = 0
    \/ call.fn = "compute_derivative" /\ Parses(call.args[1].s)
          /\ ~EvaluatesAt(call.args[1].s, call.args[2])
    \/ call.fn = "TrigonometryCore.heights_distances" /\ call.args[1] = "find_dist"
          /\ Tan(call.args[3]) = 0
    \/ call.fn = "Conicoid3D.analyze" /\ call.args[1] = "cone" /\ call.args[2].h = 0
    \/ call.fn = "GeometricTransformer.transform_2d" /\ call.args[2] = "reflect"
          /\ call.args[3].a = 0 /\ call.args[3].b = 0

IncompatibleDimensionsCall ==
    \/ call.fn = "matrix_add" /\ call.args[1] # <<>> /\ call.args[2] # <<>>
          /\ (Rows(call.args[1]) # Rows(call.args[2]) \/ Cols(call.args[1]) # Cols(call.args[2]))
    \/ call.fn = "MatrixCalculator.operate" /\ call.args[3] = "multiply"
          /\ Cols(call.args[1]) # Rows(call.args[2])
    \/ call.fn = "VectorCalculator.analyze" /\ call.args[3] = "cross" /\ call.args[2] # <<>>
          /\ (Len(call.args[1]) # 3 \/ Len(call.args[2]) # 3)

NoClosedFormCall ==
    /\ call.fn \in {"compute_indefinite_integral", "compute_integral"}
    /\ Parses(call.args[1].s)
    /\ ~HasClosedForm(call.args[1].s)

\* C8: a parse failure, a domain error (division by zero, incompatible
\* dimensions) and an integral without closed form are each reported as an
\* error; none is reported as an 'ok' result.
C8_FailuresAreErrors ==
    (ParseFailureCall \/ DivisionByZeroCall \/ IncompatibleDimensionsCall \/ NoClosedFormCall)
        => (ret.kind = "result" /\ ret.status = "error")

\* C21: when integrate finds no closed form, the definite and the indefinite
\* integral are error results; neither is an 'ok' result whose answer is a
\* numerical estimate or the unevaluated integral.
C21_NoClosedFormIsError ==
    (call.fn \in {"compute_integral", "compute_indefinite_integral"}
        /\ Parses(call.args[1].s) /\ ~HasClosedForm(call.args[1].s)) =>
        /\ ret.status = "error"
        /\ "result" \notin DOMAIN ret.payload

(***************************************************************************)
(* Plot elements.                                                          *)
(***************************************************************************)
\* C23: the kind of every plot element of every result is one of point,
\* points, line, segment, curve, area, polygon, circle, vector, surface,
\* arrow.
C23_PlotKindsClosed ==
    (ret.kind = "result") =>
        \A i \in 1..Len(ret.plot_elements) :
            ret.plot_elements[i].type \in
                {"point", "points", "line", "segment", "curve", "area", "polygon",
                 "circle", "vector", "surface", "arrow"}

\* both coordinates of a point are finite
Finite(point) == isfinite(point[1]) /\ isfinite(point[2])

\* C22: every point of every plot element of every result has finite
\* coordinates: the samples that evaluate to nan or to an infinity are left
\* out, and a call whose samples are not all finite is not an error for that.
C22_SamplesAreFinite ==
    (ret.kind = "result") =>
        /\ \A i \in 1..Len(ret.plot_elements) :
                "points" \in DOMAIN ret.plot_elements[i] =>
                    \A j \in 1..Len(ret.plot_elements[i].points) :
                        Finite(ret.plot_elements[i].points[j])
        /\ (call.fn \in {"analyze_function", "compute_integral"} /\ Parses(call.args[1].s))
                => ret.status = "ok"

\* C28: in a tangent-family graph, where samples have been removed (a
\* sample above 20 in magnitude, or two adjacent samples more than 10
\* apart) the emitted sequence has a gap: two emitted points that follow
\* each other are adjacent samples, unless an element that is not a finite
\* point sits between them.
C28_AsymptoteLeavesGap ==
    (call.fn = "TrigonometryCore.generate_graph"
        /\ call.args[1] \in {"tan", "cot", "sec", "csc"}) =>
        LET points == ret.plot_elements[1].points
        IN  \A i \in 1..(Len(points) - 1) :
                (Finite(points[i]) /\ Finite(points[i + 1])) =>
                    points[i + 1][1].v - points[i][1].v = GraphX[2] - GraphX[1]

\* the calls made to each entry point
Workload(fn) ==
    CASE fn = "analyze_function" -> AnalyzeCalls
      [] fn = "compute_derivative" -> DerivativeCalls
      [] fn = "compute_integral" -> IntegralCalls
      [] fn = "find_critical_points" -> CriticalCalls
      [] fn = "compute_taylor" -> TaylorCalls
      [] fn = "compute_limit" -> LimitCalls
      [] fn = "compute_indefinite_integral" -> IndefiniteCalls
      [] fn = "solve_ode" -> OdeCalls
      [] fn = "compute_partial_derivative" -> PartialCalls
      [] fn = "QuadraticSolver.solve" -> QuadraticCalls
      [] fn = "PolynomialSolver.analyze" -> PolynomialCalls
      [] fn = "ComplexNumberCalculator.calculate" -> ComplexCalls
      [] fn = "MatrixCalculator.operate" -> OperateCalls
      [] fn = "matrix_add" -> MatrixAddCalls
      [] fn = "matrix_inverse" -> InverseCalls
      [] fn = "tangent_from_point" -> TangentCalls
      [] fn = "line_intersection" -> LineIntersectionCalls
      [] fn = "QuadrilateralProperties.analyze" -> QuadrilateralCalls
      [] fn = "line_circle_intersection" -> LineCircleCalls
      [] fn = "circle_circle_intersection" -> CircleCircleCalls
      [] fn = "ConicAnalyzer.analyze" -> ConicCalls
      [] fn = "MatrixCalculator.compute_properties" -> PropertiesCalls
      [] fn = "matrix_transform" -> MatrixTransformCalls
      [] fn = "VectorCalculator.analyze" -> VectorCalls
      [] fn = "Mensuration.solidity" -> SolidityCalls
      [] fn = "GeometricTransformer.transform_2d" -> Transform2dCalls
      [] fn = "Conicoid3D.analyze" -> ConicoidCalls
      [] fn = "TrigonometryCore.generate_graph" -> GraphCalls
      [] fn = "TrigonometryCore.compound_angle" -> CompoundCalls
      [] fn = "TrigonometryCore.heights_distances" -> HeightsCalls

\* the result of the call of fn on args by a fresh engine
Outcome(fn, args) == Outer(fn, Run(Target(fn), args))

\* C29: the operation tag of an entry point's error results is the tag of
\* its 'ok' results: the tag names the entry point that ran, whatever the
\* outcome.
C29_SameTagOkAndError ==
    (Called /\ ret.kind = "result" /\ ret.status = "error") =>
        \A args \in Workload(call.fn) :
            Outcome(call.fn, args).status = "ok"
                => Outcome(call.fn, args).operation = ret.operation

(***************************************************************************)
(* The entry points that take an operation or shape tag.                   *)
(***************************************************************************)
TagFns ==
    {"MatrixCalculator.operate", "VectorCalculator.analyze", "Mensuration.solidity",
     "GeometricTransformer.transform_2d", "Conicoid3D.analyze", "matrix_transform",
     "TrigonometryCore.generate_graph", "TrigonometryCore.compound_angle",
     "TrigonometryCore.heights_distances"}

\* the tag argument of the call
Tag ==
    CASE call.fn \in {"MatrixCalculator.operate", "VectorCalculator.analyze"} -> call.args[3]
      [] call.fn \in {"GeometricTransformer.transform_2d", "matrix_transform"} -> call.args[2]
      [] OTHER -> call.args[1]

\* the tags each entry point has a branch for
Implemented(fn) ==
    CASE fn = "MatrixCalculator.operate" -> {"add", "subtract", "multiply"}
      [] fn = "VectorCalculator.analyze" -> {"properties", "dot", "cross", "angle", "projection"}
      [] fn = "Mensuration.solidity"     -> {"cube", "cuboid", "cylinder", "cone", "sphere"}
      [] fn = "GeometricTransformer.transform_2d" -> {"rotate", "reflect", "translate", "scale"}
      [] fn = "Conicoid3D.analyze" ->
            {"sphere", "ellipsoid", "cone", "cylinder", "hyperboloid1", "hyperboloid2",
             "paraboloid"}
      [] fn = "matrix_transform" -> {"unit_square", "unit_circle", "grid"}
      [] fn = "TrigonometryCore.generate_graph"    -> GraphFunctions
      [] fn = "TrigonometryCore.compound_angle"    -> CompoundOps
      [] fn = "TrigonometryCore.heights_distances" -> {"find_height", "find_dist"}

\* C9: an entry point that takes a tag returns an error result, never an
\* 'ok' one, when the tag is not one it implements.
C9_UnknownTagIsError ==
    (call.fn \in TagFns /\ Tag \notin Implemented(call.fn))
        => (ret.kind = "result" /\ ret.status = "error")

(***************************************************************************)
(* Quadratic solving.                                                      *)
(***************************************************************************)
RootPoints(plots) == Cardinality({i \in 1..Len(plots) : plots[i].type = "point"})

\* C10: the result of solving a*x^2 + b*x + c = 0 is decided by the sign of
\* D = b^2 - 4ac: D > 0 gives 'real_distinct' with two roots and two root
\* plot points, D = 0 'real_repeated' with one root and one root point,
\* D < 0 'complex' with two roots and no root point.
C10_BranchBySignOfD ==
    call.fn = "QuadraticSolver.solve" =>
        LET D == Discriminant(call.args[1], call.args[2], call.args[3]).v
        IN  /\ ret.kind = "result"
            /\ ret.status = "ok"
            /\ ret.payload.type = (IF D > 0 THEN "real_distinct"
                                   ELSE IF D = 0 THEN "real_repeated" ELSE "complex")
            /\ Len(ret.payload.roots) = (IF D = 0 THEN 1 ELSE 2)
            /\ RootPoints(ret.plot_elements) = (IF D > 0 THEN 2 ELSE IF D = 0 THEN 1 ELSE 0)

\* the value (-b + sign * D**0.5) / (2*a) as the parts of (p + sign*sqrt(q)) / den
RootParts(a, b, D, sign) == [p |-> -b.v, q |-> D.v, sign |-> sign, den |-> 2 * a.v]

\* C11: for a # 0 the payload of the quadratic solver holds two root values,
\* in every discriminant branch (D = 0 included), whose sum is -b/a and
\* whose product is c/a.
C11_TwoRootsSumAndProduct ==
    (call.fn = "QuadraticSolver.solve" /\ call.args[1].v # 0) =>
        LET a  == call.args[1]
            b  == call.args[2]
            c  == call.args[3]
            D  == Discriminant(a, b, c)
            x1 == RootParts(a, b, D, 1)
            x2 == RootParts(a, b, D, -1)
        IN  /\ ret.kind = "result"
            /\ ret.status = "ok"
            /\ ret.payload.roots = <<RootText(a, b, D, 1), RootText(a, b, D, -1)>>
            \* x1 + x2 = (x1.p + x2.p) / den = -b/a
            /\ (x1.p + x2.p) * a.v = -b.v * x1.den
            \* x1 * x2 = (p^2 - q) / den^2 = c/a
            /\ (x1.p * x2.p - x1.q) * a.v = c.v * x1.den * x2.den

(***************************************************************************)
(* Critical points.                                                        *)
(***************************************************************************)
\* C26: critical_points terminates: every call, with or without a domain,
\* returns a result after finitely many iterations of its loop, also when
\* the set of real zeros of f' is infinite.
C26_CriticalPointsTerminates == (call.fn # "none") ~> (ret.kind = "result")

C15_CircleCircleByTolerance ==
    call.fn = "circle_circle_intersection" =>
        LET c1 == call.args[1]
            c2 == call.args[2]
            d  == Sqrt((c2.x - c1.x) * (c2.x - c1.x) + (c2.y - c1.y) * (c2.y - c1.y))
            near == \/ CompareTol(d - (c1.r + c2.r), call.args[3]) < 0
                    \/ CompareTol(d - Abs(c1.r - c2.r), call.args[3]) < 0
            st  == ret.payload.status
            n   == Len(ret.payload.points)
        IN  /\ ret.status = "ok"
            /\ (near /\ ~(d = 0 /\ c1.r = c2.r)) => (st = "tangent" /\ n = 1)
            /\ st \in {"disjoint_outside", "disjoint_inside", "coincident"} => n = 0
            /\ st \notin {"disjoint_outside", "disjoint_inside", "coincident", "tangent"}
                    => (st = "intersecting" /\ n = 2)
            /\ (d = 5 /\ c1.r = 5 /\ c2.r = 3 /\ call.args[3] = "1")
                    => (st = "intersecting" /\ n = 2)

\* C16: for a line a*x + b*y + c = 0 with (a, b) # (0, 0) and a circle of
\* radius r whose centre is at distance d from the line: |d - r| < 1e-9 is
\* 'tangent' with exactly one point, otherwise d < r is 'secant' with
\* exactly two points, otherwise 'no_intersection' with none; every point
\* returned lies on the line.
C16_LineCircleByDistance ==
    (call.fn = "line_circle_intersection"
        /\ <<call.args[1].a, call.args[1].b>> # <<0, 0>>) =>
        LET ln  == call.args[1]
            cr  == call.args[2]
            \* d = num / den
            num == Abs(ln.a * cr.x + ln.b * cr.y + ln.c)
            den == Sqrt(ln.a * ln.a + ln.b * ln.b)
            close == CompareTolOver(num - cr.r * den, den, call.args[3]) < 0
            st  == ret.payload.status
            pts == ret.payload.points
        IN  /\ ret.status = "ok"
            /\ close => (st = "tangent" /\ Len(pts) = 1)
            /\ (~close /\ num < cr.r * den) => (st = "secant" /\ Len(pts) = 2)
            /\ (~close /\ num >= cr.r * den) => (st = "no_intersection" /\ Len(pts) = 0)
            /\ \A i \in 1..Len(pts) :
                    /\ ln.a * pts[i].x0n + ln.b * pts[i].y0n + ln.c * pts[i].den = 0
                    /\ ln.a * pts[i].dxc + ln.b * pts[i].dyc = 0

\* a line farther from the centre than r, by less than the tolerance
C16_Witness ==
    /\ call.fn = "line_circle_intersection"
    /\ call.args = <<Line(1, 0, -(10 + TolTicks - 1)), Circle(0, 0, 10), "tick">>
    /\ ret.payload.status = "tangent"
    /\ Len(ret.payload.points) = 1

\* C17: with dist the distance of the point from the centre,
\* |dist - r| < 1e-9 is 'on_circle' with exactly one tangent, whether dist is
\* below or above r; dist below r beyond the tolerance is 'inside' with no
\* tangent; dist above r beyond the tolerance is 'outside'.
C17_PointStatusByTolerance ==
    call.fn = "tangent_from_point" =>
        LET pt   == call.args[1]
            cr   == call.args[2]
            dist == Sqrt((pt.x - cr.x) * (pt.x - cr.x) + (pt.y - cr.y) * (pt.y - cr.y))
            near == CompareTol(dist - cr.r, call.args[3]) < 0
            st   == ret.payload.status
            n    == Len(ret.payload.tangents)
        IN  /\ ret.status = "ok"
            /\ near => (st = "on_circle" /\ n = 1)
            /\ (~near /\ dist < cr.r) => (st = "inside" /\ n = 0)
            /\ (~near /\ dist > cr.r) => st = "outside"

\* C18: a point outside a circle of radius r > 0 gets exactly two tangents,
\* each through the point: two sloped lines from the roots of the tangency
\* quadratic, or one sloped line and the vertical line x = px when the
\* leading coefficient dx^2 - r^2 vanishes.
C18_OutsideTwoTangents ==
    (call.fn = "tangent_from_point" /\ call.args[2].r > 0
        /\ ret.status = "ok" /\ ret.payload.status = "outside") =>
        LET pt == call.args[1]
            cr == call.args[2]
            ts == ret.payload.tangents
            sloped(t)   == t.b = -1 /\ t.c = <<pt.y, t.a, pt.x>>
            vertical(t) == t.a = 1 /\ t.b = 0 /\ t.a * pt.x + t.c = 0
            dx == cr.x - pt.x
        IN  /\ Len(ts) = 2
            /\ \A i \in 1..Len(ts) : sloped(ts[i]) \/ vertical(ts[i])
            /\ IF dx * dx - cr.r * cr.r = 0
               THEN vertical(ts[1]) /\ sloped(ts[2])
               ELSE sloped(ts[1]) /\ sloped(ts[2]) /\ ts[1] # ts[2]

(***************************************************************************)
(* Quadrilateral typing.                                                   *)
(***************************************************************************)
\* C19: with the sides s1..s4 and the diagonals d1, d2 compared under the
\* tolerance 1e-5: when all four sides are equal (each to the next, s1 to s2,
\* s2 to s3, s3 to s4) the type is 'Square' if the
\* diagonals are equal or |d1^2 - (s1^2 + s2^2)| < tol, else 'Rhombus';
\* otherwise when both pairs of opposite sides are equal it is 'Rectangle'
\* under the same test, else 'Parallelogram'; otherwise 'Quadrilateral'.
\* The equal-sides test comes first, and the 4x3 axis-aligned rectangle is a
\* 'Rectangle'.
C19_QuadrilateralTyping ==
    call.fn = "QuadrilateralProperties.analyze" =>
        LET unit == call.args[5]
            P  == call.args
            sq(i, j) == (P[i].x - P[j].x) * (P[i].x - P[j].x)
                            + (P[i].y - P[j].y) * (P[i].y - P[j].y)
            near(i, j, k, l) == LengthsEqual(sq(i, j), sq(k, l), unit)
            all_equal == near(1, 2, 2, 3) /\ near(2, 3, 3, 4) /\ near(3, 4, 4, 1)
            opposite  == near(1, 2, 3, 4) /\ near(2, 3, 4, 1)
            right     == near(1, 3, 2, 4)
                            \/ CompareTolSq(sq(1, 3) - (sq(1, 2) + sq(2, 3)), unit) < 0
            type == ret.payload.type
        IN  /\ ret.status = "ok"
            /\ (all_equal /\ right) => type = "Square"
            /\ (all_equal /\ ~right) => type = "Rhombus"
            /\ (~all_equal /\ opposite /\ right) => type = "Rectangle"
            /\ (~all_equal /\ opposite /\ ~right) => type = "Parallelogram"
            /\ (~all_equal /\ ~opposite) => type = "Quadrilateral"
            /\ call.args = <<Pt(0, 0), Pt(4, 0), Pt(4, 3), Pt(0, 3), "1">>
                    => type = "Rectangle"

\* a square: both the equal-sides and the opposite-sides tests hold
C19_Witness ==
    /\ call.fn = "QuadrilateralProperties.analyze"
    /\ call.args = <<Pt(0, 0), Pt(3, 0), Pt(3, 3), Pt(0, 3), "1">>
    /\ ret.payload.type = "Square"

\* the sum of the multiplicities of a Counter
RECURSIVE Total(_)
Total(counts) ==
    IF DOMAIN counts = {} THEN 0
    ELSE LET v == CHOOSE v \in DOMAIN counts : TRUE
         IN  counts[v] + Total([w \in DOMAIN counts \ {v} |-> counts[w]])

\* two numbers counted in the unit differ by less than 1e-4
Within1e4(a, b, unit) ==
    IF unit = "e-5" THEN Abs(a - b) < 10
    ELSE IF unit = "1" THEN a = b
    ELSE FALSE

\* C27: in the numeric path of compute_properties two eigenvalues less than
\* 1e-4 apart are reported as one entry whose multiplicity counts both, and
\* the reported multiplicities sum to the dimension n.
C27_CloseEigenvaluesMerged ==
    (/\ call.fn = "MatrixCalculator.compute_properties"
     /\ is_numeric(call.args[1])
     /\ ret.status = "ok"
     /\ "eigenvalues" \in DOMAIN ret.payload) =>
        LET unit   == call.args[2]
            A      == [i \in 1..Rows(call.args[1]) |->
                        [j \in 1..Cols(call.args[1]) |-> Mono(call.args[1][i][j]).c]]
            evals  == EigenList(A)
            counts == ret.payload.eigenvalues
        IN  /\ Total(counts) = Rows(A)
            /\ \A i, j \in DOMAIN evals :
                    (i # j /\ Within1e4(evals[i], evals[j], unit)) =>
                        \E v \in DOMAIN counts :
                            /\ counts[v] >= 2
                            /\ Within1e4(v, evals[i], unit)
                            /\ Within1e4(v, evals[j], unit)

\* C30: for two lines (each with a or b non-zero) the status is 'coincident'
\* exactly when one coefficient triple is a non-zero multiple of the other,
\* 'parallel' exactly when the lines are distinct and have no common point,
\* and otherwise 'intersecting' with a point that satisfies both equations.
C30_LineIntersectionStatus ==
    (call.fn = "line_intersection"
        /\ <<call.args[1].a, call.args[1].b>> # <<0, 0>>
        /\ <<call.args[2].a, call.args[2].b>> # <<0, 0>>) =>
        LET l1 == call.args[1]
            l2 == call.args[2]
            same_direction == l1.a * l2.b = l2.a * l1.b
            same_line == /\ same_direction
                         /\ l1.a * l2.c = l2.a * l1.c
                         /\ l1.b * l2.c = l2.b * l1.c
            st == ret.payload.status
        IN  /\ ret.status = "ok"
            /\ st = "coincident" <=> same_line
            /\ st = "parallel" <=> (same_direction /\ ~same_line)
            /\ st = "intersecting" <=> ~same_direction
            /\ st = "intersecting" =>
                    /\ l1.a * ret.payload.point.xn + l1.b * ret.payload.point.yn
                            + l1.c * ret.payload.point.den = 0
                    /\ l2.a * ret.payload.point.xn + l2.b * ret.payload.point.yn
                            + l2.c * ret.payload.point.den = 0

(***************************************************************************)
(* Conic classification.                                                   *)
(***************************************************************************)
\* C14: with h = B/2, Delta = det [[A,h,D/2],[h,C,E/2],[D/2,E/2,F]] and
\* disc = h^2 - A*C, the conic is degenerate when Delta = 0 whatever disc
\* is; otherwise a Hyperbola when disc > 0, a Parabola when disc = 0, and
\* when disc < 0 an Ellipse, a Circle if and only if A = C and B = 0; the
\* label is never 'Unknown', and x^2 + y^2 - 1 = 0 is a Circle.
C14_ConicDecisionTree ==
    call.fn = "ConicAnalyzer.analyze" =>
        LET cA == call.args[1].v   cB == call.args[2].v   cC == call.args[3].v
            cD == call.args[4].v   cE == call.args[5].v   cF == call.args[6].v
            \* 8 * Delta, expanded along the last row
            Delta == cD * (cB * cE - 2 * cC * cD) - cE * (2 * cA * cE - cB * cD)
                        + 2 * cF * (4 * cA * cC - cB * cB)
            \* 4 * disc
            disc  == cB * cB - 4 * cA * cC
            type  == ret.payload.type
        IN  /\ ret.status = "ok"
            /\ type \in {"Degenerate Conic (Pair of Lines, Point, etc.)",
                         "Hyperbola", "Parabola", "Ellipse", "Circle"}
            /\ (Delta = 0) <=> (type = "Degenerate Conic (Pair of Lines, Point, etc.)")
            /\ (Delta # 0 /\ disc > 0) <=> (type = "Hyperbola")
            /\ (Delta # 0 /\ disc = 0) <=> (type = "Parabola")
            /\ (Delta # 0 /\ disc < 0 /\ cA = cC /\ cB = 0) <=> (type = "Circle")
            /\ (<<cA, cB, cC, cD, cE, cF>> = <<1, 0, 1, 0, 0, -1>>) => type = "Circle"

\* a degenerate conic whose discriminant is positive: x^2 - y^2 = 0
C14_Witness ==
    /\ call.fn = "ConicAnalyzer.analyze"
    /\ [i \in 1..6 |-> call.args[i].v] = <<1, 0, -1, 0, 0, 0>>
    /\ ret.payload.type = "Degenerate Conic (Pair of Lines, Point, etc.)"

(***************************************************************************)
(* Matrix inverse and matrix properties.                                   *)
(***************************************************************************)
\* the integers the cells of a numeric matrix stand for
Values(matrix_data) ==
    [i \in 1..Len(matrix_data) |->
        [j \in 1..Len(matrix_data[i]) |-> Mono(matrix_data[i][j]).c]]

\* a non-empty matrix whose rows have one length
Rectangular(m) == m # <<>> /\ \A i \in 1..Len(m) : Len(m[i]) = Len(m[1])

\* C25: matrix_add on two non-empty rectangular matrices of one shape is
\* 'ok' with result[i][j] = A[i][j] + B[i][j], and an error for matrices that
\* are empty, ragged or of different shapes; the inputs are left as they
\* were.  MatrixCalculator.operate with 'add' accepts and rejects the same
\* inputs and gives the same entries.
C25_MatrixAddEntrywise ==
    LET A == call.args[1]
        B == call.args[2]
        good == /\ Rectangular(A) /\ Rectangular(B)
                /\ Len(A) = Len(B) /\ Len(A[1]) = Len(B[1])
        sum(i, j) == A[i][j] + B[i][j]
    IN  /\ call.fn = "matrix_add" =>
            /\ ret.status = (IF good THEN "ok" ELSE "error")
            /\ good => /\ ret.payload.result = [i \in 1..Len(A) |-> [j \in 1..Len(A[1]) |-> sum(i, j)]]
                       /\ ret.payload.matrix_a = A /\ ret.payload.matrix_b = B
            /\ (A = << <<1, 2>>, <<3, 4>> >> /\ B = << <<1, 1>>, <<1, 1>> >>)
                    => ret.payload.result = << <<2, 3>>, <<4, 5>> >>
        /\ (call.fn = "MatrixCalculator.operate" /\ call.args[3] = "add") =>
            /\ ret.status = (IF good THEN "ok" ELSE "error")
            /\ good => ret.payload.result =
                            [i \in 1..Len(A) |-> [j \in 1..Len(A[1]) |-> ToString(sum(i, j))]]

\* C12: on the numeric path matrix_inverse and compute_properties return
\* an inverse for a square matrix if and only if |det| > 1e-10, and with
\* |det| <= 1e-10 (exactly 1e-10 included) matrix_inverse reports
\* invertible = false and no 'inverse'; on the symbolic path the inverse is
\* returned if and only if det is not exactly zero.
C12_InverseIffDetAboveTol ==
    /\ (call.fn = "matrix_inverse" /\ ret.status = "ok") =>
            LET above == CompareTol(Det(call.args[1]), call.args[2]) > 0
            IN  /\ ("inverse" \in DOMAIN ret.payload) <=> above
                /\ ret.payload.invertible <=> above
    /\ (call.fn = "MatrixCalculator.compute_properties" /\ ret.status = "ok"
            /\ ret.payload.is_square) =>
            IF is_numeric(call.args[1])
            THEN ("inverse" \in DOMAIN ret.payload)
                    <=> CompareTol(Det(Values(call.args[1])), call.args[2]) > 0
            ELSE LET M == call.args[1]
                 IN  ("inverse" \in DOMAIN ret.payload)
                        <=> IF Len(M) = 1 THEN Mono(M[1][1]).c # 0
                            ELSE MinorNonZero(Mono(M[1][1]), Mono(M[2][2]),
                                              Mono(M[1][2]), Mono(M[2][1]))

\* C20: compute_properties takes the numeric path if and only if every
\* cell is an integer, a float, or a string that parses as a plain decimal
\* (negative decimals such as '-2' included), and every matrix it takes as
\* numeric is then evaluated without error.
C20_NumericIffPlainDecimals ==
    call.fn = "MatrixCalculator.compute_properties" =>
        LET M == call.args[1]
            decimal == \A i \in 1..Len(M) : \A j \in 1..Len(M[i]) :
                            M[i][j].t \in NumTypes \/ IsFloatText(M[i][j].chars)
        IN  /\ is_numeric(M) <=> decimal
            /\ ret.kind = "result"
            /\ is_numeric(M) => ret.status = "ok"

(***************************************************************************)
(* Properties of the cache (SpecLRU).                                      *)
(***************************************************************************)
KeyList(c) == [i \in 1..Len(c) |-> c[i].key]

\* C4: a cache never holds more than 128 entries, and it holds exactly the
\* keys most recently used (a hit counts as a use), in that order: an entry
\* leaves only when a new key enters a full cache, and the entry that leaves
\* is the least recently used one.
C4_BoundedLeastRecentlyUsed ==
    \A f \in CachedFns :
        /\ Len(cache[f]) <= MATH_CACHE_SIZE
        /\ KeyList(cache[f]) = recent[f]

\* C4's case: the cache is full, one more key than it holds has been used,
\* the first filler point has left and the hot point, used since, has stayed
C4_Witness ==
    LET c == cache["compute_derivative"]
    IN  /\ Len(c) = MATH_CACHE_SIZE
        /\ fresh = MATH_CACHE_SIZE
        /\ Find(c, FillerArgs(0)) = 0
        /\ \E a \in HotArgs : Find(c, a) > 0

\* C5: a call returns the same text (payload, steps, plot elements) as the
\* first call of the same operation with the same arguments did, whatever
\* was called in between and whether it is served from the cache or not.
C5_SameCallSameResult ==
    \A a \in DOMAIN first :
        (call.args = a /\ first[a] # NoResult) => ret = first[a]

\* C7: the key decides the output: arguments the cache takes for the key of
\* an entry give, computed fresh, the very result stored in the entry.
C7_KeyDeterminesOutput ==
    \A f \in CachedFns :
        \A i \in 1..Len(cache[f]) :
            \A a \in HotArgs :
                (f = "compute_derivative" /\ KeyEq(cache[f][i].key, a))
                    => Run(f, a) = cache[f][i].val

(***************************************************************************)
(* Workload of the memoization specification: a few calls in a row, each   *)
(* of a memoized function on arguments it succeeds on, or on arguments for *)
(* which it returns an error result, or on arguments for which its worker  *)
(* raises.  No cache comes near its capacity, so nothing is evicted.       *)
(***************************************************************************)
MaxCalls == 3

MemoDerivativeCalls == {<<PyStr(e), PyFloat(1)>> : e \in {"x**2", "x**"}}
MemoLimitCalls == {<<PyStr(e), PyFloat(1), PyStr("+/-")>> : e \in {"x**2", "x**"}}
MemoQuadraticCalls == {<<PyFloat(1), PyFloat(-3), PyFloat(2)>>, <<PyFloat(0), PyFloat(1), PyFloat(0)>>}

Tracked ==
    {<<"analyze_function", a>> : a \in AnalyzeCalls}
    \cup {<<"compute_derivative", a>> : a \in MemoDerivativeCalls}
    \cup {<<"compute_integral", a>> : a \in IntegralCalls}
    \cup {<<"find_critical_points", a>> : a \in CriticalCalls}
    \cup {<<"compute_taylor", a>> : a \in TaylorCalls}
    \cup {<<"compute_limit", a>> : a \in MemoLimitCalls}
    \cup {<<"_solve_quadratic", a>> : a \in MemoQuadraticCalls}
    \cup {<<"_analyze_polynomial_cached", a>> : a \in PolynomialCalls}
    \cup {<<"_calculate_complex", a>> : a \in ComplexCalls}

MemoCall(fn, calls) ==
    /\ fresh < MaxCalls
    /\ \E args \in calls : Call(fn, args)
    /\ fresh' = fresh + 1
    /\ UNCHANGED thr

InitMemo ==
    /\ cache = [f \in CachedFns |-> <<>>]
    /\ fresh = 0
    /\ call = NoCall
    /\ ret = NoResult
    /\ first = <<>>
    /\ runs = [k \in Tracked |-> 0]
    /\ thr = <<>>
    /\ recent = [f \in CachedFns |-> <<>>]

NextMemo ==
    \/ MemoCall("analyze_function", AnalyzeCalls)
    \/ MemoCall("compute_derivative", MemoDerivativeCalls)
    \/ MemoCall("compute_integral", IntegralCalls)
    \/ MemoCall("find_critical_points", CriticalCalls)
    \/ MemoCall("compute_taylor", TaylorCalls)
    \/ MemoCall("compute_limit", MemoLimitCalls)
    \/ MemoCall("QuadraticSolver.solve", MemoQuadraticCalls)
    \/ MemoCall("PolynomialSolver.analyze", PolynomialCalls)
    \/ MemoCall("ComplexNumberCalculator.calculate", ComplexCalls)

SpecMemo == InitMemo /\ [][NextMemo]_vars

\* C3: once the body of a memoized function has run to completion for a
\* key, whatever its outcome, it does not run again for that key while
\* nothing is evicted.
C3_ComputedAtMostOnce ==
    \A k \in DOMAIN runs : runs[k] <= 1

(***************************************************************************)
(* Workload of the concurrent specification: request threads that call     *)
(* compute_derivative on one hot point, each call in two steps (the lookup,*)
(* then the body and the store) that other requests may come between, and  *)
(* the calls on the filler points that fill the cache.                     *)
(***************************************************************************)
NThreads == 2
Threads == 1..NThreads
MaxRuns == 3

ConcArgs == <<PyStr("x**2"), PyFloat(1)>>
ConcKey == <<"compute_derivative", ConcArgs>>

Idle == [pc |-> "idle"]
Computing == [pc |-> "computing"]

\* the wrapper looks the key up: a hit is served at once, a miss goes on to
\* run the body (the workload stops asking once the body has run MaxRuns times)
Lookup(t) ==
    LET c == cache["compute_derivative"]
        i == Find(c, ConcArgs)
    IN  /\ thr[t] = Idle
        /\ IF i > 0
           THEN /\ cache' = [cache EXCEPT !["compute_derivative"] = Touch(c, i)]
                /\ call' = [fn |-> "compute_derivative", args |-> ConcArgs]
                /\ ret' = c[i].val
                /\ UNCHANGED <<thr, runs>>
           ELSE /\ runs[ConcKey] < MaxRuns
                /\ thr' = [thr EXCEPT ![t] = Computing]
                /\ runs' = [runs EXCEPT ![ConcKey] = @ + 1]
                /\ UNCHANGED <<cache, call, ret>>
        /\ UNCHANGED <<fresh, first, recent>>

\* the body has run: its value is stored if the key is still absent, and
\* returned
Finish(t) ==
    LET c   == cache["compute_derivative"]
        out == compute_derivative(ConcArgs)
    IN  /\ thr[t] = Computing
        /\ cache' = [cache EXCEPT !["compute_derivative"] =
                        Store(c, ConcArgs, out, MATH_CACHE_SIZE)]
        /\ call' = [fn |-> "compute_derivative", args |-> ConcArgs]
        /\ ret' = out
        /\ thr' = [thr EXCEPT ![t] = Idle]
        /\ UNCHANGED <<fresh, first, runs, recent>>

\* a request on a filler point, served without interruption
ConcFillerCall ==
    /\ fresh < MATH_CACHE_SIZE + MaxExtra
    /\ Call("compute_derivative", FillerArgs(fresh))
    /\ fresh' = fresh + 1
    /\ UNCHANGED thr

InitConc ==
    /\ cache = [f \in CachedFns |-> <<>>]
    /\ fresh = 0
    /\ call = NoCall
    /\ ret = NoResult
    /\ first = <<>>
    /\ runs = [k \in {ConcKey} |-> 0]
    /\ thr = [t \in Threads |-> Idle]
    /\ recent = [f \in CachedFns |-> <<>>]

NextConc ==
    \/ \E t \in Threads : Lookup(t)
    \/ \E t \in Threads : Finish(t)
    \/ ConcFillerCall

SpecConc == InitConc /\ [][NextConc]_vars

\* a key as the cache compares it: numbers by value
KeyId(args) ==
    [i \in 1..Len(args) |-> IF args[i].t \in NumTypes THEN <<"num", "", args[i].v>>
                            ELSE <<args[i].t, args[i].s, 0>>]

OneEntryPerKey(c) == Cardinality({KeyId(c[i].key) : i \in 1..Len(c)}) = Len(c)

\* the entries of keys other than args, in order
Others(c, args) == SelectSeq(c, LAMBDA e : ~KeyEq(e.key, args))

\* a step leaves the entries of every key but the called one as they were,
\* save for the least recently used entry when a new key enters a full cache
OthersUnaltered ==
    LET c == cache["compute_derivative"]
        d == cache'["compute_derivative"]
    IN  \/ Others(d, call'.args) = Others(c, call'.args)
        \/ /\ Len(c) = MATH_CACHE_SIZE
           /\ Find(c, call'.args) = 0
           /\ Others(d, call'.args) = Tail(c)

\* C6: with requests interleaving between a lookup and the store that
\* follows it, a cache holds at most one entry per key and at most 128
\* entries, a completed call leaves exactly one entry for its key, and no
\* step alters the entry of another key.
C6_ConcurrentCacheConsistent ==
    /\ [](\A f \in CachedFns : Len(cache[f]) <= MATH_CACHE_SIZE /\ OneEntryPerKey(cache[f]))
    /\ [](call.fn = "compute_derivative" => Find(cache["compute_derivative"], call.args) > 0)
    /\ [][OthersUnaltered]_vars

\* C6's case: the body has run twice for the hot key with nothing evicted
\* in between (two requests missed before either stored), both requests have
\* returned, and the cache holds the key
C6_Witness ==
    /\ runs[ConcKey] = 2
    /\ fresh < MATH_CACHE_SIZE
    /\ thr = [t \in Threads |-> Idle]
    /\ call = [fn |-> "compute_derivative", args |-> ConcArgs]
    /\ Find(cache["compute_derivative"], ConcArgs) > 0

(***************************************************************************)
(* Ownership of results.  The dataclasses ComputationResult and PlotElement *)
(* are not frozen, and a caller may change the result it was given.  An     *)
(* lru_cache hands out the object it stores: the ComputationResult itself   *)
(* for the memoized functions of calculus, and for the cached workers of    *)
(* algebra and geometry the tuple whose payload, steps and plot element     *)
(* lists the public method puts into a new ComputationResult.  Here ret is  *)
(* the result as the engine returned it, and thr holds the caller's object  *)
(* after the caller has changed it.                                        *)
(***************************************************************************)
Mark == "changed by the caller"

Changes == {"steps", "payload", "plot_elements", "element", "operation"}

\* the object after the caller's change: steps.append(..), payload[..] = ..,
\* plot_elements.append(..), plot_elements[0].type = .., or operation = ..
Mutated(obj, how) ==
    CASE how = "steps"         -> [obj EXCEPT !.steps = Append(@, Mark)]
      [] how = "payload"       -> [obj EXCEPT !.payload = [caller |-> Mark] @@ @]
      [] how = "plot_elements" -> [obj EXCEPT !.plot_elements = Append(@, PlotElement("point", Mark))]
      [] how = "element"       -> [obj EXCEPT !.plot_elements[1].type = Mark]
      [] how = "operation"     -> [obj EXCEPT !.operation = Mark]

\* the parts of the result of fn that are the very objects of the cache entry
SharedParts(fn) ==
    IF Target(fn) \notin CachedFns THEN {}
    ELSE IF Target(fn) = fn THEN Changes
    ELSE IF fn = "ConicAnalyzer.analyze" THEN {"steps"}
    ELSE {"steps", "payload", "plot_elements", "element"}

\* the caller changes the result of the last call
CallerChanges(how) ==
    LET f == Target(call.fn)
        i == IF f \in CachedFns THEN Find(cache[f], call.args) ELSE 0
    IN  /\ call.fn # "none"
        /\ ret.kind = "result"
        /\ thr = <<>>
        /\ how = "element" => ret.plot_elements # <<>>
        /\ thr' = << Mutated(ret, how) >>
        /\ cache' = IF i > 0 /\ how \in SharedParts(call.fn)
                    THEN [cache EXCEPT ![f][i].val = Mutated(@, how)]
                    ELSE cache
        /\ UNCHANGED <<fresh, call, ret, first, runs, recent>>

ShareAnalyzeCalls   == {<<PyStr(e), PyFloat(-5), PyFloat(5), PyInt(500)>> : e \in {"x**2", "x**"}}
ShareConicCalls     == {<<PyFloat(1), PyFloat(0), PyFloat(1), PyFloat(0), PyFloat(0), PyFloat(-1)>>}
ShareMatrixAddCalls == {<< << <<1, 2>>, <<3, 4>> >>, << <<1, 1>>, <<1, 1>> >> >>}

ShareCall(fn, calls) ==
    /\ fresh < MaxCalls
    /\ \E args \in calls : Call(fn, args)
    /\ fresh' = fresh + 1
    /\ thr' = <<>>

InitShare == InitEntry

NextShare ==
    \/ ShareCall("analyze_function", ShareAnalyzeCalls)
    \/ ShareCall("QuadraticSolver.solve", MemoQuadraticCalls)
    \/ ShareCall("ConicAnalyzer.analyze", ShareConicCalls)
    \/ ShareCall("matrix_add", ShareMatrixAddCalls)
    \/ \E how \in Changes : CallerChanges(how)

SpecShare == InitShare /\ [][NextShare]_vars

\* a change some caller made shows in the result r
ShowsChange(r) ==
    \/ r.operation = Mark
    \/ \E i \in 1..Len(r.steps) : r.steps[i] = Mark
    \/ "caller" \in DOMAIN r.payload
    \/ \E i \in 1..Len(r.plot_elements) : Mark \in {r.plot_elements[i].type, r.plot_elements[i].label}

\* C24: no two results returned by the engine, repeated calls served from
\* the cache included, share a PlotElement, a plot_elements list, a payload
\* or a steps list: a change a caller made to a result it was given shows in
\* no result returned later.
C24_ResultsShareNothing ==
    ret.kind = "result" => ~ShowsChange(ret)

====
